---- MODULE Spec2Model ----
(***************************************************************************)
(* Model of the elvish line editor core: the listing mode (package         *)
(* listing), the shared editor state (package clitypes) and the parts of   *)
(* the editor that drive them.                                             *)
(*                                                                         *)
(* A Go string is a sequence of bytes (0..255). A styled.Text shown by an  *)
(* item is modelled by its number of lines; line j of item i is the pair   *)
(* <<i, j>>. Item indices are 0-based as in the source.                    *)
(***************************************************************************)
EXTENDS Integers, Sequences, FiniteSets, TLC

VARIABLES
    st,         \* clitypes.State: the shared editor state (Raw)
    m,          \* listing.Mode: the StartConfig fields and the listing State
    getterLog,  \* filters passed to the ItemsGetter by the last operation
    accepted,   \* indices passed to Items.Accept since the last Start
    rendered,   \* what the last operation rendered (List), else NoRender
    op,         \* the last operation and its input
    threads,    \* the goroutines calling into the State, and its Mutex
    app         \* clicore.App: the ReadCode call under way and its terminal

vars == <<st, m, getterLog, accepted, rendered, op, threads, app>>

----------------------------------------------------------------------------
(* Bounds of the model. *)

MaxItems == 4        \* longest item list of the windowing specification
MaxItemHeight == 3   \* most lines one item renders to
MaxHeight == 6       \* largest maxHeight given to List, windowing specification
MaxPanelHeight == 3  \* largest maxHeight given to List in a session
MaxFilterBytes == 4  \* longest filter text, in bytes
MaxNotes == 1        \* most notes queued in the editor state
MaxAccepts == 2      \* most items accepted in one listing
MaxCodeLen == 3      \* longest code buffer, in bytes
MaxProducerNotes == 2  \* most notes one producer adds
MaxRedraws == 3      \* most redraws of one run
MaxTables == 2       \* most binding tables given to indexLayeredBindings
MaxCodeLines == 3    \* most lines of the code area
MaxModeLines == 3    \* most lines of the mode line
MaxEvents == 3       \* most events, signals and late updates of one ReadCode
MaxOutput == 3       \* most values and bytes a binding writes to its port

----------------------------------------------------------------------------
(* ui.Key: a rune and a set of modifiers. *)

uiShift == 1
uiCtrl == 4

uiUp == -987
uiDown == -986
uiTab == 9
uiBackspace == 127

K(r, mod) == [Rune |-> r, Mod |-> mod]

\* The runes a user types into the filter: 'a' and U+20AC, which encode to
\* one and three bytes.
TypedRunes == {97, 8364}

\* The key events of the model: the keys of defaultBinding, Backspace, the
\* typed runes, and Ctrl-A, which nothing binds.
Keys ==
    {K(91, uiCtrl), K(uiDown, 0), K(uiUp, 0), K(uiTab, 0), K(uiTab, uiShift),
     K(70, uiCtrl), K(uiBackspace, 0), K(65, uiCtrl)}
    \cup {K(r, 0) : r \in TypedRunes}

\* The keys that reach the default handler through a binding: Backspace, the
\* typed runes and Ctrl-A.
DefaultKeys ==
    {K(uiBackspace, 0), K(65, uiCtrl)} \cup {K(r, 0) : r \in TypedRunes}

\* tty.Event: a key event or a mouse event.
MouseEvent == [Mouse |-> TRUE]
Events == Keys \cup {MouseEvent}

\* unicode.IsGraphic on the runes of the model: the control characters
\* (C0, DEL, C1) are not graphic, the typed runes are.
IsGraphic(r) == r >= 32 /\ r # 127 /\ ~(r \in 128..159)

likeChar(k) == k.Mod = 0 /\ k.Rune > 0 /\ IsGraphic(k.Rune)

----------------------------------------------------------------------------
(* UTF-8, as the Go runtime and unicode/utf8 compute it. *)

\* string(r): the UTF-8 encoding of a rune; invalid runes encode U+FFFD.
RECURSIVE EncodeRune(_)
EncodeRune(r) ==
    IF r < 0 \/ r > 1114111 \/ r \in 55296..57343 THEN EncodeRune(65533)
    ELSE IF r < 128 THEN <<r>>
    ELSE IF r < 2048 THEN <<192 + (r \div 64), 128 + (r % 64)>>
    ELSE IF r < 65536 THEN
        <<224 + (r \div 4096), 128 + ((r \div 64) % 64), 128 + (r % 64)>>
    ELSE <<240 + (r \div 262144), 128 + ((r \div 4096) % 64),
           128 + ((r \div 64) % 64), 128 + (r % 64)>>

\* utf8.RuneStart: the byte is not a continuation byte.
RuneStart(b) == ~(b \in 128..191)

\* The size utf8.DecodeRuneInString returns for a non-empty string.
DecodeRuneSize(s) ==
    LET b0 == s[1]
        need == IF b0 \in 194..223 THEN 2
                ELSE IF b0 \in 224..239 THEN 3
                ELSE IF b0 \in 240..244 THEN 4
                ELSE 0
        lo1 == IF b0 = 224 THEN 160 ELSE IF b0 = 240 THEN 144 ELSE 128
        hi1 == IF b0 = 237 THEN 159 ELSE IF b0 = 244 THEN 143 ELSE 191
    IN  IF b0 < 128 THEN 1
        ELSE IF need = 0 \/ Len(s) < need THEN 1
        ELSE IF ~(s[2] \in lo1..hi1) THEN 1
        ELSE IF \E j \in 3..need : ~(s[j] \in 128..191) THEN 1
        ELSE need

\* Scans back from position start (0-based) to the limit for a start byte.
RECURSIVE ScanBack(_, _, _)
ScanBack(s, start, lim) ==
    IF start < lim THEN start
    ELSE IF RuneStart(s[start + 1]) THEN start
    ELSE ScanBack(s, start - 1, lim)

\* The size utf8.DecodeLastRuneInString returns: 0 for the empty string, the
\* byte length of the last rune, 1 for an invalid encoding.
DecodeLastRuneSize(s) ==
    LET end == Len(s)
        lim == IF end - 4 < 0 THEN 0 ELSE end - 4
        start0 == ScanBack(s, end - 2, lim)
        start == IF start0 < 0 THEN 0 ELSE start0
        size == DecodeRuneSize(SubSeq(s, start + 1, end))
    IN  IF end = 0 THEN 0
        ELSE IF s[end] < 128 THEN 1
        ELSE IF start + size # end THEN 1
        ELSE size

----------------------------------------------------------------------------
(* Items and item producers. *)

\* Items.Len
ItemsLen(items) == Len(items)

\* Items.Show(i).CountLines(): the number of lines item i renders to.
CountLines(items, i) == items[i + 1]

\* Every item list of the windowing specification.
ItemLists ==
    UNION {[1..n -> 1..MaxItemHeight] : n \in 1..MaxItems}

\* An ItemsGetter that returns the same items for every filter.
ConstGetter(base) == [kind |-> "const", base |-> base]

\* An ItemsGetter whose result narrows as the filter grows: one item fewer
\* for every byte of the filter.
NarrowGetter(base) == [kind |-> "narrow", base |-> base]

NilGetter == [kind |-> "nil", base |-> <<>>]

\* cfg.ItemsGetter(filter)
CallItemsGetter(g, f) ==
    IF g.kind = "const" THEN g.base
    ELSE IF g.kind = "narrow" THEN
        IF Len(f) >= Len(g.base) THEN <<>>
        ELSE SubSeq(g.base, 1, Len(g.base) - Len(f))
    ELSE <<>>

\* The producers a session is started with.
Getters == {ConstGetter(<<1, 1, 1, 1>>), NarrowGetter(<<2, 1, 3>>)}

StartConfigs ==
    [ItemsGetter : Getters, StartFilter : BOOLEAN,
     AutoAccept : BOOLEAN, SelectLast : BOOLEAN]

----------------------------------------------------------------------------
(* The world an operation runs in: the editor state, the listing mode and  *)
(* the calls it made to the item source.                                   *)

NoMode == "none"
ListingMode == "listing"
NoRender == [kind |-> "none"]

\* RawState.Pending, a pointer: empty when nil, else the PendingCode it
\* points to.
NoPending == <<>>

\* The zero RawState.
ZeroState ==
    [Mode |-> NoMode, Code |-> <<>>, Dot |-> 0, Pending |-> NoPending,
     Notes |-> <<>>, BindingKey |-> K(0, 0)]

World == [st |-> st, m |-> m, getterLog |-> <<>>, accepted |-> accepted]

\* PopForRedraw leaving the notes queued.
PopForRedrawKeepsNotes(w) == [w |-> w, raw |-> w.st]

\* State.PopForRedraw: returns a copy of the raw state and empties the notes.
PopForRedraw(w) == [w |-> [w EXCEPT !.st.Notes = <<>>], raw |-> w.st]

\* State.SetMode
SetMode(w, mode) == [w EXCEPT !.st.Mode = mode]

\* State.AddNote
AddNote(w, note) == [w EXCEPT !.st.Notes = Append(@, note)]

\* State.SetBindingKey
SetBindingKey(w, k) == [w EXCEPT !.st.BindingKey = k]

\* InsertAtDot putting the text at the end of the code.
InsertAtDotAppends(w, text) ==
    [w EXCEPT !.st.Code = @ \o text, !.st.Dot = @ + Len(text)]

\* State.InsertAtDot: inserts the text at the dot and moves the dot past it.
InsertAtDot(w, text) ==
    LET raw == w.st
    IN  [w EXCEPT !.st.Code = SubSeq(raw.Code, 1, raw.Dot) \o text
                              \o SubSeq(raw.Code, raw.Dot + 1, Len(raw.Code)),
                  !.st.Dot = raw.Dot + Len(text)]

\* Reset leaving the mode.
ResetKeepsMode(w) == [w EXCEPT !.st = [ZeroState EXCEPT !.Mode = w.st.Mode]]

\* State.Reset: resets the internal state to the zero RawState.
Reset(w) == [w EXCEPT !.st = ZeroState]

\* The mode of a finalized state.
DummyMode == "dummy"

\* Finalize leaving the dot.
FinalizeKeepsDot(w) ==
    [Mode |-> DummyMode, Code |-> w.st.Code, Dot |-> w.st.Dot,
     Pending |-> NoPending, Notes |-> w.st.Notes, BindingKey |-> K(0, 0)]

\* State.Finalize: the raw state for the final redraw.
Finalize(w) ==
    [Mode |-> DummyMode, Code |-> w.st.Code, Dot |-> Len(w.st.Code),
     Pending |-> NoPending, Notes |-> w.st.Notes, BindingKey |-> K(0, 0)]

\* Items.Accept(i, st)
Accept(w, i) == [w EXCEPT !.accepted = Append(@, i)]

----------------------------------------------------------------------------
(* listing.State: the methods the listing mode calls on its state.  *)

\* State.refilter: stores the filter, re-invokes the item producer with it
\* and resets the selection and the first shown item.
refilter(w, f) ==
    LET items == CallItemsGetter(w.m.state.itemsGetter, f)
    IN  [w EXCEPT !.m.state.filter = f,
                  !.m.state.items = items,
                  !.m.state.first = 0,
                  !.m.state.selected =
                      IF w.m.state.selectLast THEN ItemsLen(items) - 1 ELSE 0,
                  !.getterLog = Append(@, f)]

\* State.Up: moves the selection up, stopping at the first item.
Up(w) ==
    IF w.m.state.selected > 0
    THEN [w EXCEPT !.m.state.selected = @ - 1]
    ELSE w

\* State.Down: moves the selection down, stopping at the last item.
Down(w) ==
    IF w.m.state.selected < ItemsLen(w.m.state.items) - 1
    THEN [w EXCEPT !.m.state.selected = @ + 1]
    ELSE w

\* State.UpCycle: moves the selection up, wrapping to the last item.
UpCycle(w) ==
    IF w.m.state.selected > 0
    THEN [w EXCEPT !.m.state.selected = @ - 1]
    ELSE [w EXCEPT !.m.state.selected = ItemsLen(w.m.state.items) - 1]

\* State.DownCycle: moves the selection down, wrapping to the first item.
DownCycle(w) ==
    IF w.m.state.selected < ItemsLen(w.m.state.items) - 1
    THEN [w EXCEPT !.m.state.selected = @ + 1]
    ELSE [w EXCEPT !.m.state.selected = 0]

\* State.ToggleFiltering
ToggleFiltering(w) == [w EXCEPT !.m.state.filtering = ~@]

----------------------------------------------------------------------------
(* listing.Mode *)

\* The zero Mode value.
ZeroMode ==
    [ItemsGetter |-> NilGetter, StartFilter |-> FALSE,
     AutoAccept |-> FALSE, SelectLast |-> FALSE,
     state |-> [itemsGetter |-> NilGetter, selectLast |-> FALSE,
                filtering |-> FALSE, filter |-> <<>>, items |-> <<>>,
                first |-> 0, selected |-> 0]]

\* Start leaving selectLast out of the new state.
StartDropsSelectLast(w, cfg) ==
    LET fresh ==
            [ItemsGetter |-> cfg.ItemsGetter, StartFilter |-> cfg.StartFilter,
             AutoAccept |-> cfg.AutoAccept, SelectLast |-> cfg.SelectLast,
             state |-> [itemsGetter |-> cfg.ItemsGetter,
                        selectLast |-> FALSE,
                        filtering |-> cfg.StartFilter,
                        filter |-> <<>>, items |-> <<>>,
                        first |-> 0, selected |-> 0]]
    IN  refilter([w EXCEPT !.m = fresh], <<>>)

\* Mode.Start: replaces the whole mode by one built from the config, then
\* fetches the items for the empty filter.
Start(w, cfg) ==
    LET fresh ==
            [ItemsGetter |-> cfg.ItemsGetter, StartFilter |-> cfg.StartFilter,
             AutoAccept |-> cfg.AutoAccept, SelectLast |-> cfg.SelectLast,
             state |-> [itemsGetter |-> cfg.ItemsGetter,
                        selectLast |-> cfg.SelectLast,
                        filtering |-> cfg.StartFilter,
                        filter |-> <<>>, items |-> <<>>,
                        first |-> 0, selected |-> 0]]
    IN  refilter([w EXCEPT !.m = fresh], <<>>)

\* defaultHandler fetching the items for the new filter itself, leaving the
\* selection where it was.
defaultHandlerKeepsSelection(k, w) ==
    LET fetch(f) ==
            [w EXCEPT !.m.state.filter = f,
                      !.m.state.items =
                          CallItemsGetter(w.m.state.itemsGetter, f),
                      !.getterLog = Append(@, f)]
    IN  IF w.m.state.filtering THEN
            LET filter == w.m.state.filter IN
            IF k = K(uiBackspace, 0) THEN
                LET size == DecodeLastRuneSize(filter) IN
                IF size > 0
                THEN fetch(SubSeq(filter, 1, Len(filter) - size))
                ELSE w
            ELSE IF likeChar(k) THEN
                fetch(w.m.state.filter \o EncodeRune(k.Rune))
            ELSE AddNote(w, <<"Unbound", k>>)
        ELSE SetMode(w, NoMode)

\* defaultHandler passing only the typed rune to refilter.
defaultHandlerLastRuneOnly(k, w) ==
    IF w.m.state.filtering THEN
        LET filter == w.m.state.filter IN
        IF k = K(uiBackspace, 0) THEN
            LET size == DecodeLastRuneSize(filter) IN
            IF size > 0
            THEN refilter(w, SubSeq(filter, 1, Len(filter) - size))
            ELSE w
        ELSE IF likeChar(k) THEN
            refilter(w, EncodeRune(k.Rune))
        ELSE AddNote(w, <<"Unbound", k>>)
    ELSE SetMode(w, NoMode)

\* defaultHandler removing the last byte of the filter on Backspace.
defaultHandlerDropsByte(k, w) ==
    IF w.m.state.filtering THEN
        LET filter == w.m.state.filter IN
        IF k = K(uiBackspace, 0) THEN
            IF Len(filter) > 0
            THEN refilter(w, SubSeq(filter, 1, Len(filter) - 1))
            ELSE w
        ELSE IF likeChar(k) THEN
            refilter(w, w.m.state.filter \o EncodeRune(k.Rune))
        ELSE AddNote(w, <<"Unbound", k>>)
    ELSE SetMode(w, NoMode)

\* defaultHandler: edits the filter when filtering, closes the mode when not.
defaultHandler(k, w) ==
    IF w.m.state.filtering THEN
        LET filter == w.m.state.filter IN
        IF k = K(uiBackspace, 0) THEN
            LET size == DecodeLastRuneSize(filter) IN
            IF size > 0
            THEN refilter(w, SubSeq(filter, 1, Len(filter) - size))
            ELSE w
        ELSE IF likeChar(k) THEN
            refilter(w, w.m.state.filter \o EncodeRune(k.Rune))
        ELSE AddNote(w, <<"Unbound", k>>)
    ELSE SetMode(w, NoMode)

\* defaultBinding with Down and Up bound to the cycling moves.
defaultBindingArrowsCycle(k, w) ==
    IF k = K(91, uiCtrl) THEN SetMode(w, NoMode)
    ELSE IF k = K(uiDown, 0) THEN DownCycle(w)
    ELSE IF k = K(uiUp, 0) THEN UpCycle(w)
    ELSE IF k = K(uiTab, 0) THEN DownCycle(w)
    ELSE IF k = K(uiTab, uiShift) THEN UpCycle(w)
    ELSE IF k = K(70, uiCtrl) THEN ToggleFiltering(w)
    ELSE defaultHandler(k, w)

\* defaultBinding with Tab and Shift-Tab bound to the stopping moves.
defaultBindingTabStops(k, w) ==
    IF k = K(91, uiCtrl) THEN SetMode(w, NoMode)
    ELSE IF k = K(uiDown, 0) THEN Down(w)
    ELSE IF k = K(uiUp, 0) THEN Up(w)
    ELSE IF k = K(uiTab, 0) THEN Down(w)
    ELSE IF k = K(uiTab, uiShift) THEN Up(w)
    ELSE IF k = K(70, uiCtrl) THEN ToggleFiltering(w)
    ELSE defaultHandler(k, w)

\* defaultBinding without the entry of Ctrl-[.
defaultBindingNoEscape(k, w) ==
    IF k = K(uiDown, 0) THEN Down(w)
    ELSE IF k = K(uiUp, 0) THEN Up(w)
    ELSE IF k = K(uiTab, 0) THEN DownCycle(w)
    ELSE IF k = K(uiTab, uiShift) THEN UpCycle(w)
    ELSE IF k = K(70, uiCtrl) THEN ToggleFiltering(w)
    ELSE defaultHandler(k, w)

\* defaultBinding: the key bindings used when the config has no KeyHandler.
defaultBinding(k, w) ==
    IF k = K(91, uiCtrl) THEN SetMode(w, NoMode)
    ELSE IF k = K(uiDown, 0) THEN Down(w)
    ELSE IF k = K(uiUp, 0) THEN Up(w)
    ELSE IF k = K(uiTab, 0) THEN DownCycle(w)
    ELSE IF k = K(uiTab, uiShift) THEN UpCycle(w)
    ELSE IF k = K(70, uiCtrl) THEN ToggleFiltering(w)
    ELSE defaultHandler(k, w)

\* Mode.HandleEvent: key events go to defaultBinding (the configs of the
\* model set no KeyHandler), others are ignored.
HandleEvent(e, w) ==
    IF e \in Keys THEN defaultBinding(e, w) ELSE w

\* DefaultHandler accepting the first item whenever there is one.
DefaultHandlerAcceptsAny(w) ==
    LET w1 == defaultHandler(w.st.BindingKey, w)
    IN  IF w1.m.AutoAccept /\ ItemsLen(w1.m.state.items) >= 1
        THEN SetMode(Accept(w1, 0), NoMode)
        ELSE w1

\* Mode.DefaultHandler: handles the binding key, then accepts the only item
\* and closes the mode when AutoAccept is set and one item is left.
DefaultHandler(w) ==
    LET w1 == defaultHandler(w.st.BindingKey, w)
    IN  IF w1.m.AutoAccept /\ ItemsLen(w1.m.state.items) = 1
        THEN SetMode(Accept(w1, 0), NoMode)
        ELSE w1

\* AcceptItem accepting the first item instead of the selected one.
AcceptItemFirstItem(w) == Accept(w, 0)

\* Mode.AcceptItem: accepts the selected item.
AcceptItem(w) == Accept(w, w.m.state.selected)

\* Mode.AcceptItemAndClose: accepts the selected item and closes the mode.
AcceptItemAndClose(w) == SetMode(Accept(w, w.m.state.selected), NoMode)

----------------------------------------------------------------------------
(* The viewport of the listing. *)

respectDistance == 2

\* The first loop of findWindow: the budget used by expanding downwards from
\* item i, stopping once the whole budget is used.
RECURSIVE UseDown(_, _, _, _)
UseDown(items, i, acc, budget) ==
    IF i >= ItemsLen(items) THEN acc
    ELSE LET use == acc + CountLines(items, i)
         IN  IF use >= budget THEN use
             ELSE UseDown(items, i + 1, use, budget)

\* The second loop stopping at the old first item only when it is passed.
RECURSIVE ExtendUpPastOldFirst(_, _, _, _, _, _, _)
ExtendUpPastOldFirst(items, oldFirst, i, acc, budgetUp, useDown, budget) ==
    IF i < 0 THEN <<0, 0>>
    ELSE LET useUp == acc + CountLines(items, i)
         IN  IF useUp >= budgetUp THEN <<i, useUp - budgetUp>>
             ELSE IF i < oldFirst /\ useUp >= respectDistance
                      /\ useUp + useDown >= budget
             THEN <<i, 0>>
             ELSE ExtendUpPastOldFirst(items, oldFirst, i - 1, useUp,
                                       budgetUp, useDown, budget)

\* The second loop of findWindow: extends upwards from item i.
RECURSIVE ExtendUp(_, _, _, _, _, _, _)
ExtendUp(items, oldFirst, i, acc, budgetUp, useDown, budget) ==
    IF i < 0 THEN <<0, 0>>
    ELSE LET useUp == acc + CountLines(items, i)
         IN  IF useUp >= budgetUp THEN <<i, useUp - budgetUp>>
             ELSE IF i <= oldFirst /\ useUp >= respectDistance
                      /\ useUp + useDown >= budget
             THEN <<i, 0>>
             ELSE ExtendUp(items, oldFirst, i - 1, useUp, budgetUp, useDown,
                           budget)

\* findWindow taking the whole height as the budget for the other items.
findWindowWholeBudget(items, oldFirst, selected, maxHeight) ==
    LET selectedHeight == CountLines(items, selected)
        budget == maxHeight
        budgetUp0 == IF budget >= 2 * respectDistance
                     THEN budget - respectDistance
                     ELSE budget \div 2
        budgetDown == budget - budgetUp0
        useDown == UseDown(items, selected + 1, 0, budget)
        budgetUp == IF budgetDown > useDown
                    THEN budgetUp0 + (budgetDown - useDown)
                    ELSE budgetUp0
    IN  IF maxHeight <= selectedHeight THEN <<selected, 0>>
        ELSE ExtendUp(items, oldFirst, selected - 1, 0, budgetUp, useDown,
                      budget)

\* findWindow keeping the old first item when only the selected item fits.
findWindowKeepsOldFirst(items, oldFirst, selected, maxHeight) ==
    LET selectedHeight == CountLines(items, selected)
        budget == maxHeight - selectedHeight
        budgetUp0 == IF budget >= 2 * respectDistance
                     THEN budget - respectDistance
                     ELSE budget \div 2
        budgetDown == budget - budgetUp0
        useDown == UseDown(items, selected + 1, 0, budget)
        budgetUp == IF budgetDown > useDown
                    THEN budgetUp0 + (budgetDown - useDown)
                    ELSE budgetUp0
    IN  IF maxHeight <= selectedHeight THEN <<oldFirst, 0>>
        ELSE ExtendUp(items, oldFirst, selected - 1, 0, budgetUp, useDown,
                      budget)

\* findWindow taking no account of the old first item.
findWindowFromScratch(items, oldFirst, selected, maxHeight) ==
    LET selectedHeight == CountLines(items, selected)
        budget == maxHeight - selectedHeight
        budgetUp0 == IF budget >= 2 * respectDistance
                     THEN budget - respectDistance
                     ELSE budget \div 2
        budgetDown == budget - budgetUp0
        useDown == UseDown(items, selected + 1, 0, budget)
        budgetUp == IF budgetDown > useDown
                    THEN budgetUp0 + (budgetDown - useDown)
                    ELSE budgetUp0
    IN  IF maxHeight <= selectedHeight THEN <<selected, 0>>
        ELSE ExtendUp(items, -1, selected - 1, 0, budgetUp, useDown, budget)

\* findWindow giving the whole budget to the upward side.
findWindowAllUp(items, oldFirst, selected, maxHeight) ==
    LET selectedHeight == CountLines(items, selected)
        budget == maxHeight - selectedHeight
        useDown == UseDown(items, selected + 1, 0, budget)
    IN  IF maxHeight <= selectedHeight THEN <<selected, 0>>
        ELSE ExtendUp(items, oldFirst, selected - 1, 0, budget, useDown,
                      budget)

\* findWindow leaving the unused downward budget unused.
findWindowNoReallocation(items, oldFirst, selected, maxHeight) ==
    LET selectedHeight == CountLines(items, selected)
        budget == maxHeight - selectedHeight
        budgetUp == IF budget >= 2 * respectDistance
                    THEN budget - respectDistance
                    ELSE budget \div 2
        useDown == UseDown(items, selected + 1, 0, budget)
    IN  IF maxHeight <= selectedHeight THEN <<selected, 0>>
        ELSE ExtendUp(items, oldFirst, selected - 1, 0, budgetUp, useDown,
                      budget)

\* findWindow: the first item to show and the lines to crop from its top,
\* as the pair <<first, crop>>.
findWindow(items, oldFirst, selected, maxHeight) ==
    LET selectedHeight == CountLines(items, selected)
        budget == maxHeight - selectedHeight
        budgetUp0 == IF budget >= 2 * respectDistance
                     THEN budget - respectDistance
                     ELSE budget \div 2
        budgetDown == budget - budgetUp0
        useDown == UseDown(items, selected + 1, 0, budget)
        budgetUp == IF budgetDown > useDown
                    THEN budgetUp0 + (budgetDown - useDown)
                    ELSE budgetUp0
    IN  IF maxHeight <= selectedHeight THEN <<selected, 0>>
        ELSE ExtendUp(items, oldFirst, selected - 1, 0, budgetUp, useDown,
                      budget)

\* The lines item i contributes in List before the budget is applied: all
\* its lines, without the cropped top when it is the first item; each line
\* carries whether it is styled as selected.
ItemLines(items, first, firstCrop, selected, i) ==
    LET all == [j \in 1..CountLines(items, i) |-> <<i, j - 1, i = selected>>]
    IN  IF i = first /\ firstCrop > 0
        THEN SubSeq(all, firstCrop + 1, Len(all))
        ELSE all

\* The lines List keeps of an item when they overflow the height.
CropLast(lines, shown, maxHeight) ==
    SubSeq(lines, 1, shown + Len(lines) - maxHeight)

\* The loop of List over the items from `first` on.
RECURSIVE ListLoop(_, _, _, _, _, _, _, _)
ListLoop(items, first, firstCrop, selected, maxHeight, i, allLines, cropped) ==
    IF i >= ItemsLen(items)
    THEN [lines |-> allLines, upper |-> ItemsLen(items),
          lastCropped |-> cropped]
    ELSE LET lines0 == ItemLines(items, first, firstCrop, selected, i)
             over == Len(allLines) + Len(lines0) > maxHeight
             lines == IF over THEN CropLast(lines0, Len(allLines), maxHeight)
                      ELSE lines0
             all == allLines \o lines
         IN  IF Len(all) >= maxHeight
             THEN [lines |-> all, upper |-> i + 1,
                   lastCropped |-> cropped \/ over]
             ELSE ListLoop(items, first, firstCrop, selected, maxHeight,
                           i + 1, all, cropped \/ over)

\* Mode.List: the new first item and the renderer returned.
List(w, maxHeight) ==
    LET s == w.m.state
        n == ItemsLen(s.items)
        win == findWindow(s.items, s.first, s.selected, maxHeight)
        out == ListLoop(s.items, win[1], win[2], s.selected, maxHeight,
                        win[1], <<>>, FALSE)
    IN  IF n = 0
        THEN [w |-> w,
              rd |-> [kind |-> "string", lines |-> <<"(no result)">>]]
        ELSE [w |-> [w EXCEPT !.m.state.first = win[1]],
              rd |-> [kind |-> "texts", lines |-> out.lines,
                      firstCrop |-> win[2], upper |-> out.upper,
                      scrollbar |-> (win[1] > 0 \/ win[2] > 0
                                     \/ out.upper < n \/ out.lastCropped)]]

----------------------------------------------------------------------------
(* The main renderer of package clicore. A buffer is its number of lines;  *)
(* the code buffer also has the line of the dot.                           *)

\* findWindow of package clicore: a window of size lines around line i of n.
clicoreFindWindow(i, n, size) ==
    LET low == i - (size \div 2)
        high == low + size
    IN  IF low < 0 THEN <<0, size>>
        ELSE IF high > n THEN <<n - size, n>>
        ELSE <<low, high>>

\* Buffer.TrimToLines(low, high) on a buffer of n lines: the slice
\* b.Lines[low:high]. Slicing past the n lines panics unless the slice has
\* spare capacity (roomy), and then yields high - low lines.
TrimToLines(n, low, high, roomy) ==
    IF low < 0 \/ low > high \/ (high > n /\ ~roomy)
    THEN [panic |-> TRUE, lines |-> 0]
    ELSE [panic |-> FALSE, lines |-> high - low]

\* The number of lines ui.Render makes of what List returned.
ListingHeight(rd) == Len(rd.lines)

\* The layout chosen by the switch of mainRenderer.Render: the lines of the
\* code area and of the mode line that are kept and the height left for the
\* listing; trimmed is the range of lines the code area was trimmed to.
Layout(maxHeight, nCode, dotLine, hMode, roomy) ==
    IF maxHeight >= nCode + hMode THEN
        [panic |-> FALSE, code |-> nCode, mode |-> hMode,
         hListing |-> maxHeight - (nCode + hMode), trimmed |-> <<>>]
    ELSE IF maxHeight >= hMode + 1 THEN
        LET win == clicoreFindWindow(dotLine, nCode, maxHeight - hMode)
            trim == TrimToLines(nCode, win[1], win[2], roomy)
        IN  [panic |-> trim.panic, code |-> trim.lines, mode |-> hMode,
             hListing |-> 0, trimmed |-> win]
    ELSE IF maxHeight >= 2 THEN
        LET win == clicoreFindWindow(dotLine, nCode, maxHeight - 1)
            trim == TrimToLines(nCode, win[1], win[2], roomy)
        IN  [panic |-> trim.panic, code |-> trim.lines, mode |-> 1,
             hListing |-> 0, trimmed |-> win]
    ELSE
        [panic |-> FALSE,
         code |-> TrimToLines(nCode, dotLine, dotLine + 1, roomy).lines,
         mode |-> 0, hListing |-> 0, trimmed |-> <<dotLine, dotLine + 1>>]

\* What mainRenderer.Render leaves: the world and the frame, which is the
\* lines of its three parts, the listing and the height List was given.
MainFrame(w, lay, lists, offered, rd) ==
    [w |-> w,
     rd |-> [kind |-> "main", code |-> lay.code, mode |-> lay.mode,
             hListing |-> lay.hListing, listing |-> rd,
             trimmed |-> lay.trimmed,
             offered |-> IF lists THEN offered ELSE 0,
             height |-> lay.code + lay.mode
                        + IF lists THEN ListingHeight(rd) ELSE 0]]

\* mainRenderer.Render giving List the whole maxHeight.
RenderOffersMaxHeight(w, maxHeight, nCode, dotLine, hMode, roomy) ==
    LET lay == Layout(maxHeight, nCode, dotLine, hMode, roomy)
        lists == lay.hListing > 0 /\ w.st.Mode = ListingMode
        r == IF lists THEN List(w, maxHeight) ELSE [w |-> w, rd |-> NoRender]
    IN  IF lay.panic THEN [w |-> w, rd |-> [kind |-> "panic", trimmed |-> lay.trimmed]]
        ELSE MainFrame(r.w, lay, lists, maxHeight, r.rd)

\* mainRenderer.Render: lays out the code area and the mode line, asks a
\* Lister mode for a listing of the height left, if any, and puts the three
\* one below the other.
Render(w, maxHeight, nCode, dotLine, hMode, roomy) ==
    LET lay == Layout(maxHeight, nCode, dotLine, hMode, roomy)
        lists == lay.hListing > 0 /\ w.st.Mode = ListingMode
        r == IF lists THEN List(w, lay.hListing)
             ELSE [w |-> w, rd |-> NoRender]
    IN  IF lay.panic THEN [w |-> w, rd |-> [kind |-> "panic", trimmed |-> lay.trimmed]]
        ELSE MainFrame(r.w, lay, lists, lay.hListing, r.rd)

----------------------------------------------------------------------------
(* eval.Closure and the frame it is called in. A closure is its number of  *)
(* argument names, whether it has a rest argument, and what its body does. *)
(* An error is a record whose kind tells what eval.Cause finds in it.      *)

NoError == [kind |-> "nil"]

\* What the body of a handler does: nothing, what edit:reset-mode does, fail
\* with a requested action as the cause, or fail with another error.
Bodies == {"reset-mode", "commit-code", "fail"}

\* The action requested by the ActionError of the "commit-code" body.
CommitCode == "commit-code"
NoAction == "no-action"

\* eval.NewTopFrame: the scopes of the frame are those of the evaler.
NewTopFrame == [up |-> "global", local |-> "global"]

\* resetMode of makeResetMode, and the failures a body ends with.
BodyExec(body, w) ==
    IF body = "reset-mode"
    THEN [w |-> SetMode(w, NoMode), err |-> NoError]
    ELSE IF body = "commit-code"
    THEN [w |-> w, err |-> [kind |-> "action", action |-> CommitCode]]
    ELSE [w |-> w, err |-> [kind |-> "fail"]]

\* A call of closure c: the error returned, the frame and the world left,
\* whether the body was executed, and the binding key the call found.
CallResult(c, err, fm, w0, w, ran) ==
    [f |-> c, err |-> err, fm |-> fm, w |-> w, bodyRan |-> ran,
     key |-> w0.st.BindingKey]

\* The error of Closure.Call for a wrong number of arguments.
\* ErrArityMismatch, the error value declared for a closure called with
\* the wrong number of arguments.
ErrArityMismatch == [kind |-> "arity mismatch"]

ArityError(c, args) ==
    [kind |-> "arity", need |-> c.ArgNames, orMore |-> c.RestArg,
     got |-> Len(args)]

\* Closure.Call executing the body whatever the number of arguments.
ClosureCallAnyArity(c, fm, args, w) ==
    LET r == BodyExec(c.body, w)
    IN  CallResult(c, r.err, [up |-> "captured", local |-> "arguments"],
                   w, r.w, TRUE)

\* Closure.Call: checks the number of arguments, then makes the scopes of the
\* frame and executes the body.
ClosureCall(c, fm, args, w) ==
    IF \/ c.RestArg /\ c.ArgNames > Len(args)
       \/ ~c.RestArg /\ c.ArgNames # Len(args)
    THEN CallResult(c, ArityError(c, args), fm, w, w, FALSE)
    ELSE LET r == BodyExec(c.body, w)
         IN  CallResult(c, r.err, [up |-> "captured", local |-> "arguments"],
                        w, r.w, TRUE)

----------------------------------------------------------------------------
(* The key dispatcher of package newedit: layered binding tables. A table  *)
(* is a function from the keys it binds to closures.                       *)

uiDefaultBindingRune == -1000
uiDefault == K(uiDefaultBindingRune, 0)

NilCallable == [kind |-> "nil"]

\* The closures bound in the tables: without arguments and with each body,
\* with one argument, and with one argument and a rest argument.
Handlers ==
    {[ArgNames |-> 0, RestArg |-> FALSE, body |-> b] : b \in Bodies}
    \cup {[ArgNames |-> 1, RestArg |-> r, body |-> "reset-mode"] :
              r \in BOOLEAN}

PressKeys == {K(97, 0), K(uiTab, 0)}
TableKeys == {K(97, 0), uiDefault}
Tables == UNION {[D -> Handlers] : D \in SUBSET TableKeys}

\* The lists of at most n tables.
RECURSIVE TableLists(_)
TableLists(n) ==
    IF n = 0 THEN {<<>>}
    ELSE LET shorter == TableLists(n - 1)
         IN  shorter \cup {Append(bs, b) : bs \in shorter, b \in Tables}

\* bindingMap.HasKey and GetKey
HasKey(b, k) == k \in DOMAIN b
GetKey(b, k) == b[k]

\* One loop of indexLayeredBindings: the entry for key of the first of the
\* tables i, i+1, ... that has one.
RECURSIVE FirstWithKey(_, _, _)
FirstWithKey(key, bs, i) ==
    IF i > Len(bs) THEN NilCallable
    ELSE IF HasKey(bs[i], key) THEN GetKey(bs[i], key)
    ELSE FirstWithKey(key, bs, i + 1)

\* indexLayeredBindings looking up key and default table by table.
RECURSIVE FirstWithKeyOrDefault(_, _, _)
FirstWithKeyOrDefault(k, bs, i) ==
    IF i > Len(bs) THEN NilCallable
    ELSE IF HasKey(bs[i], k) THEN GetKey(bs[i], k)
    ELSE IF HasKey(bs[i], uiDefault) THEN GetKey(bs[i], uiDefault)
    ELSE FirstWithKeyOrDefault(k, bs, i + 1)

indexLayeredBindingsOnePass(k, bs) == FirstWithKeyOrDefault(k, bs, 1)

\* indexLayeredBindings: the binding of k, else the default binding, else nil.
indexLayeredBindings(k, bs) ==
    LET f == FirstWithKey(k, bs, 1)
    IN  IF f # NilCallable THEN f ELSE FirstWithKey(uiDefault, bs, 1)

\* app.Notify: queues the note for the next redraw.
Notify(w, note) == AddNote(w, note)

\* What the key handler returns and leaves: the world, the action, the
\* closure found and the calls made.
Dispatched(w, action, f, calls) ==
    [w |-> w, action |-> action, f |-> f, calls |-> calls]

\* callBinding notifying of every error, requested actions included.
callBindingNotifiesActions(w, f) ==
    LET r == ClosureCall(f, NewTopFrame, <<>>, w)
    IN  IF r.err # NoError
        THEN Dispatched(Notify(r.w, <<"[binding error]", r.err>>),
                        IF r.err.kind = "action" THEN r.err.action
                        ELSE NoAction, f, <<r>>)
        ELSE Dispatched(r.w, NoAction, f, <<r>>)

\* callBinding: calls the closure without arguments in a new top frame;
\* a requested action is returned, another error notified.
callBinding(w, f) ==
    LET r == ClosureCall(f, NewTopFrame, <<>>, w)
    IN  IF r.err # NoError
        THEN IF r.err.kind = "action"
             THEN Dispatched(r.w, r.err.action, f, <<r>>)
             ELSE Dispatched(Notify(r.w, <<"[binding error]", r.err>>),
                             NoAction, f, <<r>>)
        ELSE Dispatched(r.w, NoAction, f, <<r>>)

\* The key handler recording the key before it looks the binding up.
keyHandlerRecordsKeyFirst(bs, k, w) ==
    LET f == indexLayeredBindings(k, bs)
        w1 == SetBindingKey(w, k)
    IN  IF f = NilCallable
        THEN Dispatched(Notify(w1, <<"Unbound", k>>), NoAction, f, <<>>)
        ELSE callBinding(w1, f)

\* The function returned by keyHandlerFromBindings(a, ev, bs...), given k.
keyHandlerFromBindings(bs, k, w) ==
    LET f == indexLayeredBindings(k, bs)
    IN  IF f = NilCallable
        THEN Dispatched(Notify(w, <<"Unbound", k>>), NoAction, f, <<>>)
        ELSE callBinding(SetBindingKey(w, k), f)

----------------------------------------------------------------------------
(* The goroutines that share the editor state: producers of notes and the  *)
(* redraw loop. Each is at a position inside the State method it is        *)
(* calling; the Mutex of the State is free or held by one of them.         *)

Producers == {"producer 1", "producer 2"}
Redrawer == "redraw"

\* No method call under way, nothing added, no snapshot taken.
IdleThreads ==
    [mutex |-> "free",
     pc |-> [p \in Producers \cup {Redrawer} |-> "idle"],
     sent |-> [p \in Producers |-> 0],
     raw |-> <<>>,
     snaps |-> <<>>,
     added |-> <<>>]

\* Mutex.Lock returning at once, whoever holds the Mutex.
CanLockAnyTime(t) == TRUE

\* Mutex.Lock returns once no goroutine holds the Mutex.
CanLock(t) == t.mutex = "free"

----------------------------------------------------------------------------
(* clicore.App.ReadCode: the call, the goroutines it starts and the        *)
(* terminal. The call is at a position pc; each producer that runs can     *)
(* send to its channel.                                                    *)

Enter == K(10, 0)
LoopKeys == {K(97, 0), Enter}
Signals == {"SIGINT", "SIGHUP", "SIGWINCH"}
LateUpdaters == {"highlighter", "prompt"}
BackgroundProducers == {"input", "signals"} \cup LateUpdaters

SetupErr == [kind |-> "a fake error"]
EOF == [kind |-> "io.EOF"]

\* No ReadCode under way: nothing runs, the channels are empty, no hook was
\* called, nothing rendered, the terminal not restored, nothing returned.
\* entry is the code and mode ReadCode found, resets the interrupts it took
\* and resetAt the events it had handled at the last of them.
IdleApp ==
    [pc |-> "idle", running |-> {}, inputCh |-> <<>>, sigCh |-> <<>>,
     redrawCh |-> FALSE, sent |-> 0, handled |-> <<>>, before |-> 0,
     after |-> <<>>, renders |-> 0, final |-> <<>>, restored |-> 0,
     stale |-> FALSE, result |-> <<>>, entry |-> <<>>, resets |-> 0,
     resetAt |-> 0]

\* The basic mode: Enter commits the code, a printable key is inserted.
basicModeHandleEvent(e, w) ==
    IF e = Enter THEN [w |-> w, action |-> CommitCode]
    ELSE IF likeChar(e)
    THEN [w |-> InsertAtDot(w, EncodeRune(e.Rune)), action |-> NoAction]
    ELSE [w |-> w, action |-> NoAction]

\* The event is given to the active mode, the basic mode when there is none.
modeHandleEvent(e, w) ==
    IF w.st.Mode = ListingMode
    THEN [w |-> HandleEvent(e, w), action |-> NoAction]
    ELSE basicModeHandleEvent(e, w)

\* The loop treating a hangup as a resize.
signalEffectIgnoresHangup(sig, w) ==
    IF sig = "SIGINT" THEN [w |-> Reset(w), quit |-> FALSE]
    ELSE [w |-> w, quit |-> FALSE]

\* What the loop does on a signal: an interrupt resets the state, a hangup
\* ends the loop, a resize only redraws.
signalEffect(sig, w) ==
    IF sig = "SIGINT" THEN [w |-> Reset(w), quit |-> FALSE]
    ELSE IF sig = "SIGHUP" THEN [w |-> w, quit |-> TRUE]
    ELSE [w |-> w, quit |-> FALSE]

\* ReadCode going on when Setup returned an error.
afterSetupGoesOn(fails) == "acquired"

\* Where ReadCode is after Setup: it returns when Setup returned an error.
afterSetup(fails) == IF fails THEN "returned" ELSE "acquired"

\* The exit of ReadCode calling the hooks before it restores the terminal.
nextExitStepHooksFirst(pc) ==
    CASE pc = "exit" -> "stop"
      [] pc = "stop" -> "hooks"
      [] pc = "hooks" -> "restore"
      [] pc = "restore" -> "final"
      [] pc = "final" -> "reset"
      [] pc = "reset" -> "returned"

\* The exit of ReadCode restoring the terminal before it stops the producers.
nextExitStepRestoresFirst(pc) ==
    CASE pc = "exit" -> "restore"
      [] pc = "restore" -> "stop"
      [] pc = "stop" -> "final"
      [] pc = "final" -> "hooks"
      [] pc = "hooks" -> "reset"
      [] pc = "reset" -> "returned"

\* The exit of ReadCode: stop the producers and the input, restore the
\* terminal, render the finalized state, call the after-read hooks, reset
\* the state, return.
nextExitStep(pc) ==
    CASE pc = "exit" -> "stop"
      [] pc = "stop" -> "restore"
      [] pc = "restore" -> "final"
      [] pc = "final" -> "hooks"
      [] pc = "hooks" -> "reset"
      [] pc = "reset" -> "returned"

----------------------------------------------------------------------------
(* The state machine of an editor session that uses the listing mode. *)

Init ==
    /\ st = ZeroState
    /\ m = ZeroMode
    /\ getterLog = <<>>
    /\ accepted = <<>>
    /\ rendered = NoRender
    /\ op = [name |-> "new"]
    /\ threads = IdleThreads
    /\ app = IdleApp

\* The model keeps the filter and the queued notes within its bounds.
WithinBounds(w) ==
    /\ Len(w.m.state.filter) <= MaxFilterBytes
    /\ Len(w.st.Notes) <= MaxNotes
    /\ Len(w.accepted) <= MaxAccepts
    /\ Len(w.st.Code) <= MaxCodeLen

\* The step that leaves the world w behind, having rendered rd.
Becomes(w, rd, o) ==
    /\ WithinBounds(w)
    /\ st' = w.st
    /\ m' = w.m
    /\ getterLog' = w.getterLog
    /\ accepted' = w.accepted
    /\ rendered' = rd
    /\ op' = o
    /\ threads' = threads
    /\ app' = app

\* A listing mode is started with cfg and made the active mode. Start
\* overwrites the whole Mode, so starting over from inside a listing (close
\* it, then start) reaches the same states.
StartListing(cfg) ==
    /\ st.Mode = NoMode
    /\ Becomes(SetMode(Start([World EXCEPT !.accepted = <<>>], cfg),
                       ListingMode),
               NoRender, [name |-> "Start", cfg |-> cfg])

\* The active listing mode is given a terminal event.
DoHandleEvent(e) ==
    /\ st.Mode = ListingMode
    /\ Becomes(HandleEvent(e, World), NoRender,
               [name |-> "HandleEvent", e |-> e])

\* A binding bound to the listing mode's default handler runs for key k.
DoDefaultHandler(k) ==
    /\ st.Mode = ListingMode
    /\ Becomes(DefaultHandler(SetBindingKey(World, k)), NoRender,
               [name |-> "DefaultHandler", k |-> k])

\* The renderer asks the active listing mode for its listing.
DoList(maxHeight) ==
    /\ st.Mode = ListingMode
    /\ LET r == List(World, maxHeight)
       IN  Becomes(r.w, r.rd, [name |-> "List", maxHeight |-> maxHeight])

Next ==
    \/ \E cfg \in StartConfigs : StartListing(cfg)
    \/ \E e \in Events : DoHandleEvent(e)
    \/ \E k \in DefaultKeys : DoDefaultHandler(k)
    \/ \E h \in 1..MaxPanelHeight : DoList(h)

Spec == Init /\ [][Next]_vars

----------------------------------------------------------------------------
(* The accepting specification: a listing session in which the selected    *)
(* item is accepted, with or without closing the listing.                  *)

\* A binding calls AcceptItem of the active listing mode.
DoAcceptItem ==
    /\ st.Mode = ListingMode
    /\ Becomes(AcceptItem(World), NoRender, [name |-> "AcceptItem"])

\* A binding calls AcceptItemAndClose of the active listing mode.
DoAcceptItemAndClose ==
    /\ st.Mode = ListingMode
    /\ Becomes(AcceptItemAndClose(World), NoRender,
               [name |-> "AcceptItemAndClose"])

\* AutoAccept is read by DefaultHandler only, which no step here calls.
AcceptConfigs == {cfg \in StartConfigs : ~cfg.AutoAccept}

NextAccept ==
    \/ \E cfg \in AcceptConfigs : StartListing(cfg)
    \/ \E e \in Events : DoHandleEvent(e)
    \/ DoAcceptItem
    \/ DoAcceptItemAndClose

SpecAccept == Init /\ [][NextAccept]_vars

----------------------------------------------------------------------------
(* The windowing specification: List applied to every item list, selection *)
(* and old first item within the bounds.                                   *)

\* A started listing mode whose state holds the given inputs.
WindowMode(items, first, selected) ==
    [ItemsGetter |-> ConstGetter(items), StartFilter |-> FALSE,
     AutoAccept |-> FALSE, SelectLast |-> FALSE,
     state |-> [itemsGetter |-> ConstGetter(items), selectLast |-> FALSE,
                filtering |-> FALSE, filter |-> <<>>, items |-> items,
                first |-> first, selected |-> selected]]

InitWindow ==
    /\ st = [ZeroState EXCEPT !.Mode = ListingMode]
    /\ \E items \in ItemLists :
       \E selected \in 0..(Len(items) - 1) :
       \E first \in -1..Len(items) :
           m = WindowMode(items, first, selected)
    /\ getterLog = <<>>
    /\ accepted = <<>>
    /\ rendered = NoRender
    /\ op = [name |-> "new"]
    /\ threads = IdleThreads
    /\ app = IdleApp

NextWindow == \E h \in 1..MaxHeight : DoList(h)

SpecWindow == InitWindow /\ [][NextWindow]_vars

----------------------------------------------------------------------------
(* The editor state specification: the methods of clitypes.State called    *)
(* one after the other on a state holding some code.                       *)

InitCodes == {<<>>, <<120>>, <<120, 121>>}
Texts == {<<>>, <<97>>, <<98, 99>>}
Pendings == {NoPending, <<[Begin |-> 0, End |-> 1, Text |-> <<122>>]>>}
StateNotes == {"note a", "note b"}
StateKeys == {K(0, 0), K(uiTab, 0)}

\* What op.last holds when the preceding operation was not PopForRedraw.
NoSnapshot == [kind |-> "none"]

InitState ==
    /\ \E c \in InitCodes : \E d \in 0..Len(c) : \E p \in Pendings :
           st = [ZeroState EXCEPT !.Code = c, !.Dot = d, !.Pending = p]
    /\ m = ZeroMode
    /\ getterLog = <<>>
    /\ accepted = <<>>
    /\ rendered = NoRender
    /\ op = [name |-> "new"]
    /\ threads = IdleThreads
    /\ app = IdleApp

DoInsertAtDot(text) ==
    Becomes(InsertAtDot(World, text), NoRender,
            [name |-> "InsertAtDot", text |-> text])

DoReset == Becomes(Reset(World), NoRender, [name |-> "Reset"])

DoAddNote(note) ==
    Becomes(AddNote(World, note), NoRender,
            [name |-> "AddNote", note |-> note])

DoSetMode(mode) ==
    Becomes(SetMode(World, mode), NoRender,
            [name |-> "SetMode", mode |-> mode])

DoSetBindingKey(k) ==
    Becomes(SetBindingKey(World, k), NoRender,
            [name |-> "SetBindingKey", k |-> k])

\* The redraw takes its snapshot; op.last is the snapshot of the preceding
\* operation when that was PopForRedraw too.
DoPopForRedraw ==
    LET r == PopForRedraw(World)
    IN  Becomes(r.w, NoRender,
                [name |-> "PopForRedraw", raw |-> r.raw,
                 last |-> IF op.name = "PopForRedraw"
                          THEN op.raw ELSE NoSnapshot])

NextState ==
    \/ \E text \in Texts : DoInsertAtDot(text)
    \/ DoReset
    \/ \E note \in StateNotes : DoAddNote(note)
    \/ \E mode \in {NoMode, ListingMode} : DoSetMode(mode)
    \/ \E k \in StateKeys : DoSetBindingKey(k)
    \/ DoPopForRedraw

SpecState == InitState /\ [][NextState]_vars

----------------------------------------------------------------------------
(* The notes specification: producers call AddNote while the redraw loop   *)
(* calls PopForRedraw, in any interleaving of the steps of the methods.    *)

\* The steps leave the listing mode and the observations of a session.
SessionUnchanged == UNCHANGED <<m, getterLog, accepted, rendered, op, app>>

\* AddNote: s.Mutex.Lock()
AddLock(p) ==
    /\ threads.pc[p] = "idle"
    /\ threads.sent[p] < MaxProducerNotes
    /\ CanLock(threads)
    /\ threads' = [threads EXCEPT !.mutex = p, !.pc[p] = "append"]
    /\ UNCHANGED st
    /\ SessionUnchanged

\* AddNote: s.Raw.Notes = append(s.Raw.Notes, note); the note is the pair
\* of the producer and the number of the note.
AddAppend(p) ==
    /\ threads.pc[p] = "append"
    /\ LET note == <<p, threads.sent[p] + 1>>
       IN  /\ st' = [st EXCEPT !.Notes = Append(@, note)]
           /\ threads' = [threads EXCEPT !.sent[p] = @ + 1,
                                         !.added = Append(@, note),
                                         !.pc[p] = "unlock"]
    /\ SessionUnchanged

\* AddNote: the deferred s.Mutex.Unlock()
AddUnlock(p) ==
    /\ threads.pc[p] = "unlock"
    /\ threads' = [threads EXCEPT !.mutex = "free", !.pc[p] = "idle"]
    /\ UNCHANGED st
    /\ SessionUnchanged

\* PopForRedraw: s.Mutex.Lock()
PopLock ==
    /\ threads.pc[Redrawer] = "idle"
    /\ Len(threads.snaps) < MaxRedraws
    /\ CanLock(threads)
    /\ threads' = [threads EXCEPT !.mutex = Redrawer, !.pc[Redrawer] = "copy"]
    /\ UNCHANGED st
    /\ SessionUnchanged

\* PopForRedraw: raw := s.Raw
PopCopy ==
    /\ threads.pc[Redrawer] = "copy"
    /\ threads' = [threads EXCEPT !.raw = <<st>>, !.pc[Redrawer] = "clear"]
    /\ UNCHANGED st
    /\ SessionUnchanged

\* PopForRedraw: s.Raw.Notes = nil
PopClear ==
    /\ threads.pc[Redrawer] = "clear"
    /\ st' = [st EXCEPT !.Notes = <<>>]
    /\ threads' = [threads EXCEPT !.pc[Redrawer] = "unlock"]
    /\ SessionUnchanged

\* PopForRedraw: return &raw, with the deferred s.Mutex.Unlock()
PopUnlock ==
    /\ threads.pc[Redrawer] = "unlock"
    /\ threads' = [threads EXCEPT !.mutex = "free",
                                  !.snaps = Append(@, threads.raw[1]),
                                  !.raw = <<>>,
                                  !.pc[Redrawer] = "idle"]
    /\ UNCHANGED st
    /\ SessionUnchanged

NextNotes ==
    \/ \E p \in Producers : AddLock(p)
    \/ \E p \in Producers : AddAppend(p)
    \/ \E p \in Producers : AddUnlock(p)
    \/ PopLock
    \/ PopCopy
    \/ PopClear
    \/ PopUnlock

SpecNotes == Init /\ [][NextNotes]_vars

----------------------------------------------------------------------------
(* The lookup specification: indexLayeredBindings on every key and every   *)
(* list of tables within the bounds.                                       *)

\* A key and a list of tables are at hand.
InitLookup ==
    /\ st = ZeroState
    /\ m = ZeroMode
    /\ getterLog = <<>>
    /\ accepted = <<>>
    /\ rendered = NoRender
    /\ \E k \in PressKeys : \E bs \in TableLists(MaxTables) :
           op = [name |-> "tables", k |-> k, bs |-> bs]
    /\ threads = IdleThreads
    /\ app = IdleApp

DoIndexLayeredBindings ==
    /\ op.name = "tables"
    /\ op' = [name |-> "indexLayeredBindings", k |-> op.k, bs |-> op.bs,
              f |-> indexLayeredBindings(op.k, op.bs)]
    /\ UNCHANGED <<st, m, getterLog, accepted, rendered, threads, app>>

NextLookup == DoIndexLayeredBindings

SpecLookup == InitLookup /\ [][NextLookup]_vars

----------------------------------------------------------------------------
(* The dispatch specification: keys given to the handler made by           *)
(* keyHandlerFromBindings from two layers of tables, between redraws and   *)
(* changes of mode.                                                        *)

Layers == {bs \in TableLists(2) : Len(bs) = 2}

\* The key handler is given k; op tells whether a table binds k and whether
\* one has a default binding, the closure found, the action returned and the
\* calls made.
DoKey(bs, k) ==
    LET r == keyHandlerFromBindings(bs, k, World)
    IN  Becomes(r.w, NoRender,
                [name |-> "key", k |-> k,
                 hasKey |-> \E i \in 1..Len(bs) : HasKey(bs[i], k),
                 hasDefault |-> \E i \in 1..Len(bs) : HasKey(bs[i], uiDefault),
                 f |-> r.f, action |-> r.action,
                 calls |-> [i \in 1..Len(r.calls) |->
                               [f |-> r.calls[i].f, err |-> r.calls[i].err,
                                fm |-> r.calls[i].fm,
                                bodyRan |-> r.calls[i].bodyRan,
                                key |-> r.calls[i].key]]])

NextBinding ==
    \/ \E bs \in Layers : \E k \in PressKeys : DoKey(bs, k)
    \/ \E mode \in {NoMode, ListingMode} : DoSetMode(mode)
    \/ DoPopForRedraw

SpecBinding == Init /\ [][NextBinding]_vars

----------------------------------------------------------------------------
(* The rendering specification: the main renderer called with every        *)
(* maxHeight, code area and mode line within the bounds, for the basic     *)
(* mode and for a listing mode.                                            *)

\* The items of the listing modes that are rendered.
RenderItemLists == {<<>>, <<1, 1, 1, 1>>, <<2, 1, 3>>}

\* No mode is active, or a listing mode with some items and selection.
InitRender ==
    /\ \/ st = ZeroState /\ m = ZeroMode
       \/ /\ st = [ZeroState EXCEPT !.Mode = ListingMode]
          /\ \E its \in RenderItemLists :
             \E sel \in 0..(IF its = <<>> THEN 0 ELSE Len(its) - 1) :
                 m = WindowMode(its, 0, sel)
    /\ getterLog = <<>>
    /\ accepted = <<>>
    /\ rendered = NoRender
    /\ op = [name |-> "new"]
    /\ threads = IdleThreads
    /\ app = IdleApp

\* A redraw renders the main frame.
DoRender(maxHeight, nCode, dotLine, hMode, roomy) ==
    LET r == Render(World, maxHeight, nCode, dotLine, hMode, roomy)
    IN  Becomes(r.w, r.rd,
                [name |-> "Render", maxHeight |-> maxHeight, nCode |-> nCode,
                 dotLine |-> dotLine, hMode |-> hMode, roomy |-> roomy])

NextRender ==
    \E maxHeight \in 1..MaxHeight : \E nCode \in 1..MaxCodeLines :
    \E dotLine \in 0..(nCode - 1) : \E hMode \in 0..MaxModeLines :
    \E roomy \in BOOLEAN :
        DoRender(maxHeight, nCode, dotLine, hMode, roomy)

SpecRender == InitRender /\ [][NextRender]_vars

----------------------------------------------------------------------------
(* The locking specification: the goroutines that call the methods of the  *)
(* listing mode and of the editor state, each method as the sequence of    *)
(* its lock, unlock and access steps. "m" is the stateMutex of the Mode    *)
(* and the listing state it guards, "s" the Mutex of the State and its     *)
(* raw state. The RWMutex of the State is taken as an exclusive lock.      *)

LockThreads == {"keys", "redraw", "notes"}

\* A method of the State: lock, access, unlock.
StateCall == <<<<"lock", "s">>, <<"access", "s">>, <<"unlock", "s">>>>

\* HandleEvent holding the stateMutex while the configured KeyHandler runs.
KeyHandlerCallLocked(inner) ==
    <<<<"lock", "m">>>> \o inner \o <<<<"unlock", "m">>>>

\* HandleEvent with a KeyHandler configured: the handler runs with no lock
\* held, and calls a method of the Mode.
KeyHandlerCall(inner) == inner

\* The steps of each method.
RECURSIVE MethodSteps(_)
MethodSteps(method) ==
    CASE method = "HandleEvent" ->
            <<<<"lock", "m">>, <<"access", "m">>>> \o StateCall
            \o <<<<"unlock", "m">>>>
      [] method = "HandleEvent: DefaultHandler" ->
            KeyHandlerCall(MethodSteps("DefaultHandler"))
      [] method = "HandleEvent: MutateStates" ->
            KeyHandlerCall(MethodSteps("MutateStates"))
      [] method = "DefaultHandler" ->
            <<<<"lock", "m">>>> \o StateCall \o <<<<"access", "m">>>>
            \o StateCall \o <<<<"unlock", "m">>>>
      [] method = "MutateStates" ->
            <<<<"lock", "m">>, <<"access", "m">>, <<"unlock", "m">>>>
      [] method = "AcceptItem" ->
            <<<<"lock", "m">>, <<"access", "m">>>> \o StateCall
            \o <<<<"unlock", "m">>>>
      [] method = "AcceptItemAndClose" ->
            <<<<"lock", "m">>, <<"access", "m">>>> \o StateCall \o StateCall
            \o <<<<"unlock", "m">>>>
      [] method = "Start" -> <<<<"access", "m">>, <<"reset", "m">>>>
      [] method = "ModeLine" ->
            <<<<"lock", "m">>, <<"access", "m">>, <<"unlock", "m">>>>
      [] method = "ModeRenderFlag" -> <<<<"access", "m">>>>
      [] method = "List" ->
            <<<<"lock", "m">>, <<"access", "m">>, <<"unlock", "m">>>>
      [] method = "PopForRedraw" -> StateCall
      [] method = "AddNote" -> StateCall

\* The methods each goroutine calls: the key handling, the redraw and the
\* producers of notes.
MethodsOf(t) ==
    CASE t = "keys" ->
            {"HandleEvent", "HandleEvent: DefaultHandler",
             "HandleEvent: MutateStates", "DefaultHandler", "MutateStates",
             "AcceptItem", "AcceptItemAndClose", "Start"}
      [] t = "redraw" -> {"PopForRedraw", "ModeLine", "ModeRenderFlag", "List"}
      [] t = "notes" -> {"AddNote"}

\* No goroutine is in a method, both locks are free, no access was made
\* without the lock and no unlock of an unlocked mutex has ended the program.
InitLocks ==
    /\ st = [ZeroState EXCEPT !.Mode = ListingMode]
    /\ m = ZeroMode
    /\ getterLog = <<>>
    /\ accepted = <<>>
    /\ rendered = NoRender
    /\ op = [name |-> "new"]
    /\ app = IdleApp
    /\ threads = [holder |-> [l \in {"m", "s"} |-> "free"],
                  todo |-> [t \in LockThreads |-> <<>>],
                  call |-> [t \in LockThreads |-> "none"],
                  unsynced |-> {},
                  fatal |-> FALSE]

\* Goroutine t calls a method.
CallMethod(t, method) ==
    /\ ~threads.fatal
    /\ threads.todo[t] = <<>>
    /\ threads' = [threads EXCEPT !.todo[t] = MethodSteps(method),
                                  !.call[t] = method]
    /\ UNCHANGED <<st, m, getterLog, accepted, rendered, op, app>>

\* Goroutine t takes the next step of its method: a lock waits until the
\* mutex is free; an unlock of a mutex that is not locked is fatal; an
\* access to the listing state is noted when t does not hold the
\* stateMutex; Start overwrites the Mode, stateMutex included.
LockStep(t) ==
    /\ ~threads.fatal
    /\ threads.todo[t] # <<>>
    /\ LET step == Head(threads.todo[t])
           l == step[2]
           rest == Tail(threads.todo[t])
           done == [threads EXCEPT !.todo[t] = rest,
                                   !.call[t] = IF rest = <<>> THEN "none"
                                               ELSE @]
       IN  /\ step[1] = "lock" => threads.holder[l] = "free"
           /\ threads' =
                  CASE step[1] = "lock" -> [done EXCEPT !.holder[l] = t]
                    [] step[1] = "unlock" ->
                          IF threads.holder[l] = "free"
                          THEN [threads EXCEPT !.fatal = TRUE]
                          ELSE [done EXCEPT !.holder[l] = "free"]
                    [] step[1] = "access" ->
                          IF l = "m" /\ threads.holder[l] # t
                          THEN [done EXCEPT !.unsynced =
                                                @ \cup {threads.call[t]}]
                          ELSE done
                    [] step[1] = "reset" -> [done EXCEPT !.holder[l] = "free"]
    /\ UNCHANGED <<st, m, getterLog, accepted, rendered, op, app>>

NextLocks ==
    \/ \E t \in LockThreads : \E method \in MethodsOf(t) : CallMethod(t, method)
    \/ \E t \in LockThreads : LockStep(t)

SpecLocks == InitLocks /\ [][NextLocks]_vars

----------------------------------------------------------------------------
(* The notify port specification: callBinding calls a binding that writes  *)
(* values and bytes to the port of makeNotifyPort, whose two goroutines    *)
(* relay them as notes; then callBinding cleans up and returns.            *)

\* What a binding writes: a value, here the string v, the byte of a
\* newline or the byte of an a.
Outputs ==
    UNION {[1..n -> {<<"value", <<118>>>>, <<"byte", 10>>, <<"byte", 97>>}] :
               n \in 0..MaxOutput}

\* The bytes relay keeping the newline of a line.
relayReadKeepsNewline(buf, b) ==
    IF b = 10 THEN [buf |-> <<>>, notes |-> <<<<"[bytes out]", buf \o <<b>>>>>>]
    ELSE [buf |-> Append(buf, b), notes |-> <<>>]

\* The bytes relay reads byte b after the bytes buf of the line: a newline
\* ends the line, which is notified without it.
relayRead(buf, b) ==
    IF b = 10 THEN [buf |-> <<>>, notes |-> <<<<"[bytes out]", buf>>>>]
    ELSE [buf |-> Append(buf, b), notes |-> <<>>]

\* The bytes relay at the end of the pipe: the bytes read since the last
\* newline are notified if there are any.
relayEOF(buf) == IF buf # <<>> THEN <<<<"[bytes out]", buf>>>> ELSE <<>>

\* cleanup returning without waiting for the relays.
cleanupDoneNoWait(relays) == TRUE

\* cleanup has closed the port; wg.Wait() returns when both relays are done.
cleanupDone(relays) == relays = {}

\* callBinding has made the port and calls a binding that will write out
\* and end with outcome; both relays run.
InitPort ==
    /\ st = ZeroState
    /\ m = ZeroMode
    /\ getterLog = <<>>
    /\ accepted = <<>>
    /\ rendered = NoRender
    /\ app = IdleApp
    /\ \E out \in Outputs : \E outcome \in {"nil", "action", "error"} :
           /\ op = [name |-> "callBinding", out |-> out, outcome |-> outcome]
           /\ threads = [pc |-> "call", out |-> out, held |-> <<>>,
                         pipe |-> <<>>, buf |-> <<>>, closed |-> FALSE,
                         relays |-> {"values", "bytes"}, notices |-> <<>>]

PortStep(t) ==
    /\ threads' = t
    /\ UNCHANGED <<st, m, getterLog, accepted, rendered, op, app>>

\* The binding writes a byte to the pipe, or sends a value, which the
\* values relay receives at once (the channel has no buffer) and holds; or
\* it ends, and callBinding notifies the error if it ended with one.
BindingRuns ==
    /\ threads.pc = "call"
    /\ IF threads.out = <<>>
       THEN PortStep([threads EXCEPT
                !.pc = "cleanup",
                !.notices = IF op.outcome = "error"
                            THEN Append(@, <<"[binding error]", <<101>>>>)
                            ELSE @])
       ELSE LET x == Head(threads.out)
                t == [threads EXCEPT !.out = Tail(@)]
            IN  IF x[1] = "value"
                THEN /\ threads.held = <<>>
                     /\ PortStep([t EXCEPT !.held = <<x[2]>>])
                ELSE PortStep([t EXCEPT !.pipe = Append(@, x[2])])

\* The values relay notifies the value it holds; when the channel is
\* closed and it holds none, it is done.
RelayValues ==
    /\ "values" \in threads.relays
    /\ IF threads.held # <<>>
       THEN PortStep([threads EXCEPT
                !.held = <<>>,
                !.notices = Append(@, <<"[value out]", threads.held[1]>>)])
       ELSE /\ threads.closed
            /\ PortStep([threads EXCEPT !.relays = @ \ {"values"}])

\* The bytes relay reads the next byte of the pipe; at the end of a closed
\* pipe it notifies what is left and is done.
RelayBytes ==
    /\ "bytes" \in threads.relays
    /\ IF threads.pipe # <<>>
       THEN LET r == relayRead(threads.buf, Head(threads.pipe))
            IN  PortStep([threads EXCEPT !.pipe = Tail(@), !.buf = r.buf,
                                         !.notices = @ \o r.notes])
       ELSE /\ threads.closed
            /\ PortStep([threads EXCEPT
                    !.buf = <<>>,
                    !.notices = @ \o relayEOF(threads.buf),
                    !.relays = @ \ {"bytes"}])

\* cleanup: port.Close() closes the channel and the pipe, wg.Wait() waits
\* for the relays; then callBinding returns.
Cleanup ==
    \/ /\ threads.pc = "cleanup"
       /\ PortStep([threads EXCEPT !.pc = "wait", !.closed = TRUE])
    \/ /\ threads.pc = "wait"
       /\ cleanupDone(threads.relays)
       /\ PortStep([threads EXCEPT !.pc = "returned"])

NextPort == BindingRuns \/ RelayValues \/ RelayBytes \/ Cleanup

SpecPort == InitPort /\ [][NextPort]_vars

----------------------------------------------------------------------------
(* The ReadCode specification: one call of ReadCode on a state holding     *)
(* some code, with the terminal, the signal source and the late updates    *)
(* sending what they like, and with other goroutines adding notes to the   *)
(* state.                                                                  *)

InitReadCode ==
    /\ \E c \in {<<>>, <<120, 121>>} : \E d \in 0..Len(c) :
       \E mode \in {NoMode, ListingMode} : \E p \in Pendings :
           /\ st = [ZeroState EXCEPT !.Code = c, !.Dot = d, !.Mode = mode,
                                     !.Pending = p]
           /\ m = IF mode = ListingMode
                  THEN WindowMode(<<1, 1, 1, 1>>, 0, 0) ELSE ZeroMode
    /\ getterLog = <<>>
    /\ accepted = <<>>
    /\ rendered = NoRender
    /\ op = [name |-> "new"]
    /\ threads = IdleThreads
    /\ app = IdleApp

\* The step of ReadCode or of a producer that leaves world w and call a.
AppStep(w, a, o) ==
    /\ WithinBounds(w)
    /\ st' = w.st
    /\ m' = w.m
    /\ getterLog' = w.getterLog
    /\ accepted' = w.accepted
    /\ rendered' = NoRender
    /\ op' = o
    /\ threads' = threads
    /\ app' = a

\* A redraw of the loop: the state is popped and rendered.
Redrawn(w, a) == [w |-> PopForRedraw(w).w, a |-> [a EXCEPT !.renders = @ + 1]]

\* A producer that runs sends v: the event reader a terminal event, the
\* signal relay a signal, the highlighter or the prompt a late update.
ProducerSends(p, v) ==
    /\ p \in app.running
    /\ app.sent < MaxEvents
    /\ LET a == [app EXCEPT !.sent = @ + 1,
                            !.stale = @ \/ app.restored > 0]
       IN  AppStep(World,
                   IF p = "input" THEN [a EXCEPT !.inputCh = Append(@, v)]
                   ELSE IF p = "signals" THEN [a EXCEPT !.sigCh = Append(@, v)]
                   ELSE [a EXCEPT !.redrawCh = TRUE],
                   [name |-> "send", p |-> p, v |-> v])

\* ReadCode: tty.Setup()
ReadCodeSetup(fails) ==
    /\ app.pc = "idle"
    /\ AppStep(World,
               [app EXCEPT !.pc = afterSetup(fails),
                           !.entry = <<[Code |-> st.Code, Mode |-> st.Mode]>>,
                           !.result = IF fails
                                      THEN <<[code |-> <<>>, err |-> SetupErr]>>
                                      ELSE <<>>],
               [name |-> "Setup", fails |-> fails])

\* ReadCode starts the input, the producers and the signals, calls the
\* before-read hooks and draws the state.
ReadCodeStart ==
    /\ app.pc = "acquired"
    /\ LET r == Redrawn(World, [app EXCEPT !.pc = "loop",
                                           !.running = BackgroundProducers,
                                           !.before = @ + 1])
       IN  AppStep(r.w, r.a, [name |-> "start"])

\* The loop takes a terminal event and gives it to the mode; it ends on a
\* commit and redraws otherwise.
LoopInput ==
    /\ app.pc = "loop"
    /\ app.inputCh # <<>>
    /\ LET e == Head(app.inputCh)
           h == modeHandleEvent(e, World)
           a == [app EXCEPT !.inputCh = Tail(@), !.handled = Append(@, e)]
           r == Redrawn(h.w, a)
       IN  IF h.action = CommitCode
           THEN AppStep(h.w, [a EXCEPT !.pc = "exit",
                                       !.result = <<[code |-> h.w.st.Code,
                                                     err |-> NoError]>>],
                        [name |-> "input", e |-> e])
           ELSE AppStep(r.w, r.a, [name |-> "input", e |-> e])

\* The loop takes a signal; a hangup ends it with io.EOF and the code or
\* no code, another signal redraws.
LoopSignal ==
    /\ app.pc = "loop"
    /\ app.sigCh # <<>>
    /\ LET sig == Head(app.sigCh)
           h == signalEffect(sig, World)
           a == [app EXCEPT !.sigCh = Tail(@)]
           r == Redrawn(h.w, IF sig = "SIGINT"
                             THEN [a EXCEPT !.resets = @ + 1,
                                            !.resetAt = Len(app.handled)]
                             ELSE a)
       IN  IF h.quit
           THEN \E code \in {<<>>, st.Code} :
                    AppStep(h.w, [a EXCEPT !.pc = "exit",
                                           !.result = <<[code |-> code,
                                                         err |-> EOF]>>],
                            [name |-> "signal", sig |-> sig])
           ELSE AppStep(r.w, r.a, [name |-> "signal", sig |-> sig])

\* The loop takes a late update and redraws.
LoopLateUpdate ==
    /\ app.pc = "loop"
    /\ app.redrawCh
    /\ LET r == Redrawn(World, [app EXCEPT !.redrawCh = FALSE])
       IN  AppStep(r.w, r.a, [name |-> "late update"])

\* The steps of the exit of ReadCode, in the order of nextExitStep.
ReadCodeExit ==
    /\ app.pc \in {"exit", "stop", "restore", "final", "hooks", "reset"}
    /\ LET step == nextExitStep(app.pc)
           a == [app EXCEPT !.pc = step]
           o == [name |-> step]
       IN  CASE step = "stop" ->
                   AppStep(World, [a EXCEPT !.running = {}, !.inputCh = <<>>,
                                            !.sigCh = <<>>,
                                            !.redrawCh = FALSE], o)
             [] step = "restore" ->
                   AppStep(World, [a EXCEPT !.restored = @ + 1], o)
             [] step = "final" ->
                   AppStep(World,
                           [a EXCEPT !.final = Append(@, Finalize(World))], o)
             [] step = "hooks" ->
                   AppStep(World,
                           [a EXCEPT !.after = Append(@, app.result[1].code)],
                           o)
             [] step = "reset" -> AppStep(Reset(World), a, o)
             [] step = "returned" -> AppStep(World, a, o)

NextReadCode ==
    \/ \E fails \in BOOLEAN : ReadCodeSetup(fails)
    \/ ReadCodeStart
    \/ \E e \in LoopKeys : ProducerSends("input", e)
    \/ \E sig \in Signals : ProducerSends("signals", sig)
    \/ \E p \in LateUpdaters : ProducerSends(p, "late update")
    \/ LoopInput
    \/ LoopSignal
    \/ LoopLateUpdate
    \/ ReadCodeExit
    \/ DoAddNote("note a")

SpecReadCode == InitReadCode /\ [][NextReadCode]_vars

\* ReadCode goes on whenever it can: the loop takes what is sent to it,
\* signals included, and the exit runs to its end.
FairSpecReadCode ==
    /\ SpecReadCode
    /\ WF_vars(ReadCodeStart)
    /\ WF_vars(LoopInput)
    /\ WF_vars(LoopSignal)
    /\ WF_vars(LoopLateUpdate)
    /\ WF_vars(ReadCodeExit)

----------------------------------------------------------------------------
(* Properties of the viewport. *)

Listing == st.Mode = ListingMode
items == m.state.items
selected == m.state.selected
first == m.state.first

\* The lines of the items i..j-1.
RECURSIVE LinesOf(_, _, _)
LinesOf(its, i, j) ==
    IF i >= j THEN 0 ELSE its[i + 1] + LinesOf(its, i + 1, j)

\* The window <<f, crop>> of height h starts inside item f, at or above the
\* selected item, and holds the first line of the selected item.
WindowHoldsSelected(its, sel, h, win) ==
    /\ 0 <= win[1]
    /\ win[1] <= sel
    /\ win[2] >= 0
    /\ win[2] <= its[win[1] + 1]
    /\ LinesOf(its, win[1], sel) - win[2] >= 0
    /\ LinesOf(its, win[1], sel) - win[2] < h

\* C1: for every item list, every old first item, every selected item and
\* every maxHeight >= 1, findWindow returns a first item in 0..selected and a
\* crop >= 0 such that the window of maxHeight lines starting crop lines into
\* the first item holds the first line of the selected item.
C1_FindWindowHoldsSelected ==
    Listing /\ Len(items) >= 1 /\ selected \in 0..(Len(items) - 1) =>
        \A h \in 1..MaxHeight :
            WindowHoldsSelected(items, selected, h,
                                findWindow(items, first, selected, h))

\* A List call that scrolled: the window starts inside an item above the
\* selected one, with part of that item cropped.
C1_Witness ==
    /\ op.name = "List"
    /\ rendered.kind = "texts"
    /\ rendered.firstCrop > 0
    /\ 0 < first
    /\ first < selected
    /\ Len(rendered.lines) = op.maxHeight

\* C2: List(maxHeight) never renders more than maxHeight lines.
C2_ListWithinMaxHeight ==
    op.name = "List" => Len(rendered.lines) <= op.maxHeight

----------------------------------------------------------------------------
(* Invariants of the listing state. *)

\* C3: whenever the listing has items, the selection is one of them.
C3_SelectedInRange ==
    Listing /\ Len(items) > 0 => 0 <= selected /\ selected < Len(items)

\* A filter edit left a shorter list with its last item selected.
C3_Witness ==
    /\ Listing
    /\ op.name = "DefaultHandler"
    /\ getterLog # <<>>
    /\ Len(m.state.filter) > 0
    /\ Len(items) = 2
    /\ selected = 1

\* C4 as stated: the first shown item is never below the selected item.
C4_FirstLeSelectedAlways ==
    Listing /\ Len(items) > 0 => first <= selected

\* C4, amended: right after a List call on a list with items, the first
\* shown item is at or above the selected item.
C4_FirstLeSelectedAfterList ==
    op.name = "List" /\ Len(items) > 0 => first <= selected

\* A List call moved the first shown item down to follow the selection.
C4_Witness ==
    /\ op.name = "List"
    /\ Len(items) > 0
    /\ first > 0
    /\ first <= selected

----------------------------------------------------------------------------
(* Selection moves. *)

\* The step is HandleEvent of key k on a listing with at least one item.
KeyStep(k) ==
    /\ Listing
    /\ Len(items) >= 1
    /\ op'.name = "HandleEvent"
    /\ op'.e = k

\* C5: Down and Up never wrap: Up at index 0 and Down at index count-1 leave
\* the selection, otherwise each moves it by exactly one.
C5_DownUpStop ==
    [][/\ KeyStep(K(uiDown, 0)) =>
            m'.state.selected =
                IF selected = Len(items) - 1 THEN selected ELSE selected + 1
       /\ KeyStep(K(uiUp, 0)) =>
            m'.state.selected = IF selected = 0 THEN 0 ELSE selected - 1]_vars

\* Down was handled and the last of several items is selected.
C5_Witness ==
    /\ Listing
    /\ op.name = "HandleEvent"
    /\ op.e = K(uiDown, 0)
    /\ Len(items) >= 2
    /\ selected = Len(items) - 1

\* The selection after the listing in w handled the key n times in a row.
RECURSIVE TabTimes(_, _, _)
TabTimes(w, key, n) ==
    IF n = 0 THEN w.m.state.selected
    ELSE TabTimes(HandleEvent(key, w), key, n - 1)

\* C6: DownCycle at index count-1 selects 0, UpCycle at index 0 selects
\* count-1, at every other index they move the selection by one; count
\* DownCycle (or UpCycle) moves in a row return to the starting index.
C6_CycleWraps ==
    /\ [][/\ KeyStep(K(uiTab, 0)) =>
               m'.state.selected =
                   IF selected = Len(items) - 1 THEN 0 ELSE selected + 1
          /\ KeyStep(K(uiTab, uiShift)) =>
               m'.state.selected =
                   IF selected = 0 THEN Len(items) - 1 ELSE selected - 1]_vars
    /\ [](Listing /\ Len(items) >= 1 =>
            /\ TabTimes(World, K(uiTab, 0), Len(items)) = selected
            /\ TabTimes(World, K(uiTab, uiShift), Len(items)) = selected)

\* Shift-Tab was handled and the last of several items is selected while the
\* window still starts at the first item.
C6_Witness ==
    /\ Listing
    /\ op.name = "HandleEvent"
    /\ op.e = K(uiTab, uiShift)
    /\ ~m.SelectLast
    /\ Len(items) >= 3
    /\ selected = Len(items) - 1
    /\ m.state.filter = <<>>

----------------------------------------------------------------------------
(* Filtering. *)

filter == m.state.filter

\* The UTF-8 encodings of the typed runes.
Utf8 == [r \in TypedRunes |-> IF r = 97 THEN <<97>> ELSE <<226, 130, 172>>]

\* The step handles key k in a listing that is filtering, through the
\* default binding or through a binding that calls DefaultHandler.
FilterKeyStep(k) ==
    /\ Listing
    /\ m.state.filtering
    /\ \/ op'.name = "HandleEvent" /\ op'.e = k
       \/ op'.name = "DefaultHandler" /\ op'.k = k

\* C7: while filtering, a typed rune is appended to the filter and the item
\* producer is invoked once, with the whole new filter; the items shown are
\* always those the producer returns for the filter.
C7_TypedRuneAppends ==
    /\ [][\A r \in TypedRunes :
            FilterKeyStep(K(r, 0)) =>
                /\ m'.state.filter = filter \o Utf8[r]
                /\ getterLog' = <<filter \o Utf8[r]>>
                /\ m'.state.items =
                       CallItemsGetter(m.ItemsGetter, filter \o Utf8[r])]_vars
    /\ [](Listing => items = CallItemsGetter(m.ItemsGetter, filter))

\* Two different runes were typed and the producer got both.
C7_Witness ==
    /\ Listing
    /\ op.name = "HandleEvent"
    /\ op.e = K(8364, 0)
    /\ filter = <<97, 226, 130, 172>>
    /\ getterLog = <<filter>>

\* C8: while filtering, Backspace removes the whole last rune of the filter
\* and invokes the producer with the shorter filter; on an empty filter it
\* leaves the listing as it is and does not invoke the producer.
C8_BackspaceDropsRune ==
    [][FilterKeyStep(K(uiBackspace, 0)) =>
          IF filter = <<>>
          THEN m' = m /\ getterLog' = <<>>
          ELSE /\ \E r \in TypedRunes :
                      filter = m'.state.filter \o Utf8[r]
               /\ getterLog' = <<m'.state.filter>>
               /\ m'.state.items =
                      CallItemsGetter(m.ItemsGetter, m'.state.filter)]_vars

\* Backspace through DefaultHandler shortened a longer filter to one rune.
C8_Witness ==
    /\ Listing
    /\ op.name = "DefaultHandler"
    /\ op.k = K(uiBackspace, 0)
    /\ filter = <<97>>
    /\ getterLog = <<<<97>>>>

\* C9: after Start and after every filter change the selection is 0, or
\* count-1 when SelectLast is configured, and the first shown item is 0.
C9_RefilterResets ==
    op.name = "Start" \/ getterLog # <<>> =>
        /\ selected = IF m.SelectLast THEN Len(items) - 1 ELSE 0
        /\ first = 0

\* A filter edit under SelectLast selected the last of the items left.
C9_Witness ==
    /\ Listing
    /\ op.name \in {"HandleEvent", "DefaultHandler"}
    /\ getterLog # <<>>
    /\ filter # <<>>
    /\ m.SelectLast
    /\ Len(items) >= 2
    /\ selected = Len(items) - 1

\* C10: with AutoAccept, after DefaultHandler handled a key while filtering,
\* the mode is closed and item 0 accepted if exactly one item is left, and
\* otherwise the mode stays and nothing is accepted.
C10_AutoAccept ==
    [][Listing /\ m.AutoAccept /\ m.state.filtering
       /\ op'.name = "DefaultHandler" =>
          IF Len(m'.state.items) = 1
          THEN st'.Mode = NoMode /\ accepted' = Append(accepted, 0)
          ELSE st'.Mode = ListingMode /\ accepted' = accepted]_vars

\* The second typed byte left one item, which was accepted.
C10_Witness ==
    /\ st.Mode = NoMode
    /\ op.name = "DefaultHandler"
    /\ m.AutoAccept
    /\ Len(filter) = 2
    /\ Len(items) = 1
    /\ accepted = <<0>>

----------------------------------------------------------------------------
(* Closing the listing. *)

C12_AcceptSelected ==
    [][/\ Listing /\ op'.name = "AcceptItem" =>
            /\ accepted' = Append(accepted, selected)
            /\ st'.Mode = st.Mode
       /\ Listing /\ op'.name = "AcceptItemAndClose" =>
            /\ accepted' = Append(accepted, selected)
            /\ st'.Mode = NoMode]_vars

\* An item was accepted with the listing left open, then another one
\* accepted with the listing closed.
C12_Witness ==
    /\ st.Mode = NoMode
    /\ op.name = "AcceptItemAndClose"
    /\ Len(accepted) = 2
    /\ accepted[1] # accepted[2]
    /\ accepted[2] = selected
    /\ selected > 0

----------------------------------------------------------------------------
(* Properties of the editor state. *)

\* The notes of the snapshots, one after the other.
RECURSIVE SnapshotNotes(_)
SnapshotNotes(snaps) ==
    IF snaps = <<>> THEN <<>>
    ELSE Head(snaps).Notes \o SnapshotNotes(Tail(snaps))

\* C13: under any interleaving of AddNote calls of several producers with
\* PopForRedraw calls, every note added is in the snapshot of exactly one
\* PopForRedraw or still queued for the next one, and the snapshots hold
\* the notes in the order they were added: whenever no PopForRedraw is under
\* way, the notes of the snapshots followed by the queued notes are the
\* notes added, in order.
C13_NotesPoppedOnce ==
    threads.pc[Redrawer] = "idle" =>
        SnapshotNotes(threads.snaps) \o st.Notes = threads.added

\* Both producers added all their notes while redraws went on; every note
\* was popped, and one snapshot holds notes of both producers.
C13_Witness ==
    /\ \A p \in Producers : threads.sent[p] = MaxProducerNotes
    /\ threads.pc[Redrawer] = "idle"
    /\ st.Notes = <<>>
    /\ \E i, j \in 1..Len(threads.snaps) :
           /\ i # j
           /\ threads.snaps[i].Notes # <<>>
           /\ \E a, b \in 1..Len(threads.snaps[j].Notes) :
                  threads.snaps[j].Notes[a][1] # threads.snaps[j].Notes[b][1]

\* The fields of a RawState other than the notes.
KeptFields == {"Mode", "Code", "Dot", "Pending", "BindingKey"}

\* C14: when PopForRedraw is called twice in a row, the second snapshot has
\* no notes, and its mode, code, dot, pending code and binding key are those
\* of the first snapshot.
C14_SecondPopEmpty ==
    op.name = "PopForRedraw" /\ op.last # NoSnapshot =>
        /\ op.raw.Notes = <<>>
        /\ \A f \in KeptFields : op.raw[f] = op.last[f]

\* A second PopForRedraw followed one whose snapshot held a note, on a state
\* with code and an active mode.
C14_Witness ==
    /\ op.name = "PopForRedraw"
    /\ op.last # NoSnapshot
    /\ op.last.Notes # <<>>
    /\ op.raw.Code # <<>>
    /\ op.raw.Mode = ListingMode

\* C15: InsertAtDot(text) on code c with the dot at d makes the code
\* c[:d] + text + c[d:] and the dot d + len(text), and leaves the mode, the
\* pending code, the notes and the binding key; so 0 <= dot <= len(code)
\* holds throughout.
C15_InsertAtDot ==
    /\ [][op'.name = "InsertAtDot" =>
            LET c == st.Code
                d == st.Dot
                t == op'.text
            IN  /\ Len(st'.Code) = Len(c) + Len(t)
                /\ \A i \in 1..Len(st'.Code) :
                       st'.Code[i] = IF i <= d THEN c[i]
                                     ELSE IF i <= d + Len(t) THEN t[i - d]
                                     ELSE c[i - Len(t)]
                /\ st'.Dot = d + Len(t)
                /\ st'.Mode = st.Mode
                /\ st'.Pending = st.Pending
                /\ st'.Notes = st.Notes
                /\ st'.BindingKey = st.BindingKey]_vars
    /\ [](0 <= st.Dot /\ st.Dot <= Len(st.Code))

\* A text was inserted strictly inside the code, on a state with a note
\* queued and code pending.
C15_Witness ==
    /\ op.name = "InsertAtDot"
    /\ Len(op.text) >= 1
    /\ st.Dot - Len(op.text) >= 1
    /\ st.Dot < Len(st.Code)
    /\ st.Notes # <<>>
    /\ st.Pending # NoPending

----------------------------------------------------------------------------
(* Properties of the key dispatcher. *)

\* The indices of the tables of bs that have an entry for key.
TablesWith(bs, key) == {i \in 1..Len(bs) : key \in DOMAIN bs[i]}

\* The least of a non-empty set of numbers.
Least(S) == CHOOSE i \in S : \A j \in S : i <= j

\* C16: the handler found for key k is the binding of k in the first table
\* that binds k; only when no table binds k, it is the default binding of
\* the first table that has one; so the binding of k in a later table wins
\* over the default binding of an earlier table.
C16_TwoPassLookup ==
    op.name = "indexLayeredBindings" =>
        LET specific == TablesWith(op.bs, op.k)
            default == TablesWith(op.bs, uiDefault)
        IN  IF specific # {} THEN op.f = op.bs[Least(specific)][op.k]
            ELSE IF default # {} THEN op.f = op.bs[Least(default)][uiDefault]
            ELSE op.f = NilCallable

\* The first table has a default binding only, the second binds the key to
\* another closure, which was found.
C16_Witness ==
    /\ op.name = "indexLayeredBindings"
    /\ Len(op.bs) = 2
    /\ DOMAIN op.bs[1] = {uiDefault}
    /\ op.k \in DOMAIN op.bs[2]
    /\ op.bs[2][op.k] # op.bs[1][uiDefault]
    /\ op.f = op.bs[2][op.k]

\* The step is the key handler given a key for which a closure was found.
BoundKeyStep == op'.name = "key" /\ (op'.hasKey \/ op'.hasDefault)

\* The step leaves the editor state as it was but for the binding key, which
\* is k, and the notes, which are as given.
OnlyKeyAndNotes(k, notes) ==
    st' = [st EXCEPT !.BindingKey = k, !.Notes = notes]

\* C17: for a key that no table binds and no table has a default for, the
\* handler adds exactly one "Unbound" note with the key, returns no action,
\* calls no closure and leaves the binding key; when a closure is found, the
\* key is the binding key by the time the closure is called.
C17_UnboundKey ==
    [][/\ op'.name = "key" /\ ~op'.hasKey /\ ~op'.hasDefault =>
            /\ OnlyKeyAndNotes(st.BindingKey,
                               Append(st.Notes, <<"Unbound", op'.k>>))
            /\ op'.action = NoAction
            /\ op'.calls = <<>>
       /\ BoundKeyStep =>
            /\ Len(op'.calls) = 1
            /\ op'.calls[1].f = op'.f
            /\ op'.calls[1].key = op'.k]_vars

\* A key without binding or default was pressed after another key had been
\* recorded as the binding key.
C17_Witness ==
    /\ op.name = "key"
    /\ ~op.hasKey /\ ~op.hasDefault
    /\ st.Notes = <<<<"Unbound", op.k>>>>
    /\ st.BindingKey \notin {op.k, K(0, 0)}

\* C18: the key handler returns an action and nothing else; when the
\* closure fails with a requested action as the cause, that action is
\* returned and no note added; when it fails otherwise, exactly one
\* "[binding error]" note is added and no action returned; when it
\* succeeds, no action is returned and no note added.
C18_CallBindingAbsorbs ==
    [][BoundKeyStep =>
          LET err == op'.calls[1].err
          IN  /\ op'.action \in {NoAction, CommitCode}
              /\ err.kind = "action" =>
                     /\ op'.action = err.action
                     /\ st'.Notes = st.Notes
              /\ err.kind \notin {"action", "nil"} =>
                     /\ op'.action = NoAction
                     /\ st'.Notes = Append(st.Notes, <<"[binding error]", err>>)
              /\ err = NoError =>
                     /\ op'.action = NoAction
                     /\ st'.Notes = st.Notes]_vars

\* A closure failed with a requested action, which the handler returned.
C18_Witness ==
    /\ op.name = "key"
    /\ op.f # NilCallable
    /\ op.calls[1].bodyRan
    /\ op.calls[1].err.kind = "action"
    /\ op.action = CommitCode
    /\ st.Notes = <<>>

\* C19: a closure that needs at least one argument, called by the key
\* handler without arguments, fails with an argument count error before its
\* body is executed and before the scopes of the frame are set, and the
\* handler adds exactly one "[binding error]" note and returns no action.
C19_ArityErrorAbsorbed ==
    [][BoundKeyStep /\ op'.f.ArgNames >= 1 =>
          LET call == op'.calls[1]
          IN  /\ call.err = [kind |-> "arity", need |-> op'.f.ArgNames,
                             orMore |-> op'.f.RestArg, got |-> 0]
              /\ ~call.bodyRan
              /\ call.fm = NewTopFrame
              /\ op'.action = NoAction
              /\ OnlyKeyAndNotes(op'.k,
                     Append(st.Notes, <<"[binding error]", call.err>>))]_vars

\* A closure with one argument and a rest argument was found for a key
\* pressed while a mode was active; the mode is still active.
C19_Witness ==
    /\ op.name = "key"
    /\ op.f # NilCallable
    /\ op.f.ArgNames = 1
    /\ op.f.RestArg
    /\ ~op.calls[1].bodyRan
    /\ Len(st.Notes) = 1
    /\ st.Notes[1][1] = "[binding error]"
    /\ st.Mode = ListingMode

----------------------------------------------------------------------------
(* Properties of the main renderer. *)

\* C20: for every maxHeight of at least 1, every code area, mode line and
\* mode, the main frame rendered has at most maxHeight lines.
C20_MainFrameWithinMaxHeight ==
    op.name = "Render" /\ rendered.kind = "main" =>
        rendered.height <= op.maxHeight

\* The main frame has at most maxHeight lines whenever the listing has at
\* most the lines it was given.
MainFrameWithinMaxHeightIfListingIs ==
    /\ op.name = "Render"
    /\ rendered.kind = "main"
    /\ rendered.listing # NoRender =>
           ListingHeight(rendered.listing) <= rendered.hListing
    => rendered.height <= op.maxHeight

\* C21: the listing is drawn if and only if the whole code area and the
\* whole mode line fit in maxHeight with at least one line left and the mode
\* is a Lister; List is then given exactly maxHeight minus the lines of code
\* area and mode line, and neither of the two is cropped.
C21_PanelOnlyWhenBothFit ==
    op.name = "Render" /\ rendered.kind = "main" =>
        LET drawn == rendered.listing # NoRender
            left == op.maxHeight - (op.nCode + op.hMode)
        IN  /\ drawn <=> (left >= 1 /\ st.Mode = ListingMode)
            /\ drawn => /\ rendered.offered = left
                        /\ rendered.code = op.nCode
                        /\ rendered.mode = op.hMode

\* A listing was drawn in the two lines left below a code area of two lines
\* and a mode line.
C21_Witness ==
    /\ op.name = "Render"
    /\ rendered.kind = "main"
    /\ rendered.listing # NoRender
    /\ op.nCode = 2
    /\ op.hMode = 1
    /\ rendered.offered = 2

----------------------------------------------------------------------------
(* Properties of ReadCode. *)

Returned == app.pc = "returned"
Result == app.result[1]
SetupFailed == app.result # <<>> /\ Result.err = SetupErr
Ended == app.result # <<>> /\ Result.err # SetupErr

\* The bytes that typing the keys, none of them Enter, leaves in the code.
RECURSIVE Typed(_)
Typed(keys) ==
    IF keys = <<>> THEN <<>>
    ELSE EncodeRune(Head(keys).Rune) \o Typed(Tail(keys))

\* C22: when Setup returns an error, ReadCode returns with that error; it
\* has given no event to a mode, started no producer and no input, and
\* none of them has sent anything.
C22_SetupErrorAborts ==
    /\ op.name = "Setup" /\ op.fails => SetupFailed
    /\ SetupFailed =>
           /\ Returned
           /\ app.handled = <<>>
           /\ app.running = {}
           /\ app.sent = 0
           /\ app.before = 0 /\ app.after = <<>> /\ app.renders = 0

C22_Witness == op.name = "Setup" /\ op.fails /\ Returned /\ SetupFailed

\* The after-read hooks were called at most once, after the terminal was
\* restored, with the code ReadCode returns; they were called when ReadCode
\* returns from a session that acquired the terminal. A session that found
\* no code and the basic mode, took no interrupt and ended on Enter returns
\* what its keys typed.
AfterHooksOnce ==
    /\ Len(app.after) <= 1
    /\ app.after # <<>> =>
           /\ Ended
           /\ app.restored = 1
           /\ app.after[1] = Result.code
    /\ Returned /\ Ended => Len(app.after) = 1
    /\ /\ Ended /\ Result.err = NoError /\ app.resets = 0
       /\ app.entry[1].Code = <<>> /\ app.entry[1].Mode = NoMode
       => /\ app.handled[Len(app.handled)] = Enter
          /\ Result.code = Typed(SubSeq(app.handled, 1, Len(app.handled) - 1))

HangupPending ==
    app.pc = "loop" /\ \E i \in 1..Len(app.sigCh) : app.sigCh[i] = "SIGHUP"

\* C24: a hangup the loop takes ends the loop with io.EOF; from then on
\* ReadCode returns io.EOF with no more terminal events, and a session with
\* a hangup waiting returns; when ReadCode has returned, no event reader,
\* signal relay, highlighter or prompt runs.
C24_HangupEndsSession ==
    /\ [][op'.name = "signal" /\ op'.sig = "SIGHUP" =>
             /\ app.pc = "loop" /\ app'.pc = "exit"
             /\ app'.result[1].err = EOF]_vars
    /\ [](Returned => app.running = {})
    /\ (Ended /\ Result.err = EOF)
           ~> (Returned /\ Result.err = EOF /\ app.running = {})
    /\ HangupPending ~> Returned

C24_Witness ==
    /\ Returned
    /\ Result.err = EOF
    /\ app.handled = <<K(97, 0)>>
    /\ app.sent = 2
    /\ app.running = {}

\* C25: an interrupt the loop takes leaves no code, the dot at 0, no mode
\* and nothing pending, redraws once and leaves the session in its loop
\* with its producers running; a commit after it returns what the keys
\* handled since the last interrupt typed, and nothing older.
C25_InterruptResets ==
    /\ [][op'.name = "signal" /\ op'.sig = "SIGINT" =>
             /\ st'.Code = <<>> /\ st'.Dot = 0
             /\ st'.Mode = NoMode /\ st'.Pending = NoPending
             /\ app'.renders = app.renders + 1
             /\ app'.pc = "loop" /\ app'.result = <<>>
             /\ app'.running = BackgroundProducers
             /\ app'.inputCh = app.inputCh]_vars
    /\ [](Ended /\ Result.err = NoError /\ app.resets > 0 =>
             /\ app.handled[Len(app.handled)] = Enter
             /\ Result.code = Typed(SubSeq(app.handled, app.resetAt + 1,
                                            Len(app.handled) - 1)))

C25_Witness ==
    /\ Returned
    /\ app.entry[1] = [Code |-> <<120, 121>>, Mode |-> ListingMode]
    /\ app.resets = 1 /\ app.resetAt = 0
    /\ app.handled = <<K(97, 0), Enter>>
    /\ Result = [code |-> <<97>>, err |-> NoError]

\* C26: on every way out of the loop, commit or hangup, the final render
\* is made when every producer and the input have been stopped; there is
\* one final render and one Restore; nothing runs once the terminal is
\* restored, and no producer has sent anything after the Restore.
C26_StopBeforeFinalRender ==
    /\ [][Len(app'.final) > Len(app.final) =>
             /\ app.running = {}
             /\ app.inputCh = <<>> /\ app.sigCh = <<>> /\ ~app.redrawCh]_vars
    /\ [](/\ Len(app.final) <= 1
          /\ app.restored <= 1
          /\ Returned /\ Ended => Len(app.final) = 1 /\ app.restored = 1
          /\ app.restored > 0 => app.running = {}
          /\ ~app.stale)

C26_Witness ==
    /\ Returned
    /\ Result.err = NoError
    /\ app.handled = <<Enter>> /\ app.sent = 3
    /\ Len(app.final) = 1 /\ app.restored = 1
    /\ app.running = {}

\* C27: the final render draws the finalized state: the code of the state,
\* the dot at the end of the code, the placeholder mode, nothing pending,
\* the notes of the state; taking it changes no field of the state, the
\* queued notes included.
C27_FinalRenderOfFinalizedState ==
    [][Len(app'.final) > Len(app.final) =>
          LET f == app'.final[Len(app'.final)]
          IN  /\ f.Code = st.Code
              /\ f.Dot = Len(st.Code)
              /\ f.Mode = DummyMode
              /\ f.Pending = NoPending
              /\ f.Notes = st.Notes
              /\ st' = st /\ m' = m]_vars

C27_Witness ==
    /\ app.pc = "final"
    /\ app.final = <<[Mode |-> DummyMode, Code |-> <<120, 121>>, Dot |-> 2,
                      Pending |-> NoPending, Notes |-> <<"note a">>,
                      BindingKey |-> K(0, 0)]>>
    /\ st.Dot = 1 /\ st.Notes = <<"note a">> /\ st.Pending # NoPending

----------------------------------------------------------------------------
(* Properties of the window around the selected item. *)

MinOf(a, b) == IF a < b THEN a ELSE b

\* The window <<f, crop>> starts inside item f and the lines from there to
\* the end of the last item are h lines, or all the lines when there are
\* fewer: a window of h lines ends at the last line of the last item.
WindowEndsAtLast(its, h, win) ==
    /\ 0 <= win[1] /\ win[1] < Len(its)
    /\ 0 <= win[2] /\ win[2] < its[win[1] + 1]
    /\ LinesOf(its, win[1], Len(its)) - win[2]
           = MinOf(h, LinesOf(its, 0, Len(its)))

\* C28 as stated: when the last item is selected, for every old first item
\* and every maxHeight >= 1 the window of findWindow ends at the last line
\* of the last item and has min(maxHeight, all lines) lines.
C28_LastSelectedEndsAtLastAlways ==
    Listing /\ Len(items) >= 1 /\ selected = Len(items) - 1 =>
        \A h \in 1..MaxHeight :
            WindowEndsAtLast(items, h, findWindow(items, first, selected, h))

\* C28: when the last item is selected and is not higher than maxHeight,
\* for every old first item the window of findWindow ends at the last line
\* of the last item and has min(maxHeight, all lines) lines; a last item
\* higher than maxHeight is shown from its first line.
C28_LastSelectedEndsAtLast ==
    Listing /\ Len(items) >= 1 /\ selected = Len(items) - 1 =>
        \A h \in 1..MaxHeight :
            LET win == findWindow(items, first, selected, h)
            IN  IF items[Len(items)] <= h
                THEN WindowEndsAtLast(items, h, win)
                ELSE win = <<selected, 0>>

C28_Witness ==
    /\ op.name = "List"
    /\ Len(items) >= 2 /\ selected = Len(items) - 1
    /\ rendered.kind = "texts"
    /\ rendered.firstCrop > 0
    /\ first < selected
    /\ LinesOf(items, first, Len(items)) - rendered.firstCrop = op.maxHeight
    /\ LinesOf(items, 0, Len(items)) > op.maxHeight

\* The lines the window <<f, crop>> shows above the selected item.
ShownAbove(its, sel, win) == LinesOf(its, win[1], sel) - win[2]

\* The lines a window of h lines shows below the selected item.
ShownBelow(its, sel, h, win) ==
    MinOf(LinesOf(its, sel + 1, Len(its)),
          h - its[sel + 1] - ShownAbove(its, sel, win))

\* Both sides of the selected item show respectDistance lines, or all the
\* lines there are on that side.
RespectKept(its, sel, h, win) ==
    /\ ShownAbove(its, sel, win)
           >= MinOf(respectDistance, LinesOf(its, 0, sel))
    /\ ShownBelow(its, sel, h, win)
           >= MinOf(respectDistance, LinesOf(its, sel + 1, Len(its)))

\* The lines below the selected item that the downward half of a budget
\* cannot use, none when the lines below fill it.
UnusedDown(its, sel, budget) ==
    LET down == budget - budget \div 2
        below == LinesOf(its, sel + 1, Len(its))
    IN  IF down > below THEN down - below ELSE 0

\* C30 as stated: with a budget (maxHeight less the height of the selected
\* item) of at least 2 * respectDistance the window shows respectDistance
\* lines, or all there are, on each side of the selected item; with a
\* smaller budget the lines shown above are floor(budget / 2), or all there
\* are, and the rest of the budget goes below.
C30_RespectOrHalfAlways ==
    Listing /\ Len(items) >= 1 /\ selected \in 0..(Len(items) - 1) =>
        \A h \in 1..MaxHeight :
            LET win == findWindow(items, first, selected, h)
                budget == h - items[selected + 1]
            IN  /\ budget >= 2 * respectDistance =>
                       RespectKept(items, selected, h, win)
                /\ budget >= 1 /\ budget < 2 * respectDistance =>
                       ShownAbove(items, selected, win)
                           = MinOf(budget \div 2, LinesOf(items, 0, selected))

\* C30: with a budget of at least 2 * respectDistance the window shows
\* respectDistance lines, or all there are, on each side of the selected
\* item; with a smaller budget the lines shown above are floor(budget / 2)
\* plus what the lines below leave unused of the other half, or all the
\* lines there are above.
C30_RespectOrHalf ==
    Listing /\ Len(items) >= 1 /\ selected \in 0..(Len(items) - 1) =>
        \A h \in 1..MaxHeight :
            LET win == findWindow(items, first, selected, h)
                budget == h - items[selected + 1]
            IN  /\ budget >= 2 * respectDistance =>
                       RespectKept(items, selected, h, win)
                /\ budget >= 1 /\ budget < 2 * respectDistance =>
                       ShownAbove(items, selected, win)
                           = MinOf(budget \div 2
                                       + UnusedDown(items, selected, budget),
                                   LinesOf(items, 0, selected))

C30_Witness ==
    /\ op.name = "List"
    /\ rendered.kind = "texts"
    /\ op.maxHeight - items[selected + 1] >= 2 * respectDistance
    /\ LinesOf(items, 0, selected) > respectDistance
    /\ LinesOf(items, selected + 1, Len(items)) > respectDistance
    /\ ShownAbove(items, selected, <<first, rendered.firstCrop>>)
           = respectDistance

----------------------------------------------------------------------------
(* Properties of Closure.Call. *)

\* C29: a closure called with a number of arguments that does not match
\* its argument list returns ErrArityMismatch.
C29_ArityMismatchReturnsErrArityMismatch ==
    op.name = "key" /\ op.f # NilCallable /\ op.f.ArgNames >= 1 =>
        op.calls[1].err = ErrArityMismatch

----------------------------------------------------------------------------
(* Properties of the window when the list is drawn again. *)

\* The window of h lines that starts at the first line of item old shows
\* the whole selected item with respectDistance lines above it and, below
\* it, respectDistance lines or all the lines to the end of the list, and
\* the lines from item old on fill it.
Comfortable(its, old, sel, h) ==
    /\ 0 <= old /\ old <= sel /\ sel < Len(its)
    /\ LinesOf(its, old, sel) >= respectDistance
    /\ LET room == h - LinesOf(its, old, sel + 1)
           below == LinesOf(its, sel + 1, Len(its))
       IN  /\ room >= 0
           /\ \/ MinOf(room, below) >= respectDistance
              \/ room >= below
    /\ LinesOf(its, old, Len(its)) >= h

\* C31: when the window starting at the old first item is comfortable
\* around the selected item and full, findWindow returns the old first
\* item with no crop: the list does not scroll.
C31_NoScrollInComfortableWindow ==
    Listing =>
        \A h \in 1..MaxHeight :
            Comfortable(items, first, selected, h) =>
                findWindow(items, first, selected, h) = <<first, 0>>

\* A list drawn from an old first item that a window computed without it
\* would not start at.
C31_Witness ==
    /\ op.name = "List"
    /\ rendered.kind = "texts"
    /\ Comfortable(items, first, selected, op.maxHeight)
    /\ first > 0
    /\ rendered.firstCrop = 0
    /\ findWindow(items, -1, selected, op.maxHeight) # <<first, 0>>

\* C34: the crop findWindow returns is less than the lines of the item it
\* returns as first, and the first line List draws is a line of the item
\* it stores as first.
C34_CropLeavesALine ==
    /\ Listing /\ Len(items) >= 1 /\ selected \in 0..(Len(items) - 1) =>
           \A h \in 1..MaxHeight :
               LET win == findWindow(items, first, selected, h)
               IN  /\ win[1] \in 0..(Len(items) - 1)
                   /\ 0 <= win[2] /\ win[2] < items[win[1] + 1]
    /\ op.name = "List" /\ rendered.kind = "texts" =>
           /\ Len(rendered.lines) >= 1
           /\ rendered.lines[1][1] = first
           /\ rendered.lines[1][2] = rendered.firstCrop

\* C35: the window findWindow returns is the window it returns again from
\* its own first item, for every height; a List that follows a List with
\* the same height returns the same lines and changes nothing.
C35_WindowIdempotent ==
    /\ Listing /\ Len(items) >= 1 /\ selected \in 0..(Len(items) - 1) =>
           \A h \in 1..MaxHeight :
               LET win == findWindow(items, first, selected, h)
               IN  findWindow(items, win[1], selected, h) = win
    /\ op.name = "List" =>
           LET again == List(World, op.maxHeight)
           IN  again.w = World /\ again.rd = rendered

C35_Witness ==
    /\ op.name = "List"
    /\ rendered.kind = "texts"
    /\ 0 < first /\ first < selected /\ selected < Len(items) - 1
    /\ rendered.firstCrop = 0
    /\ ~Comfortable(items, first - 1, selected, op.maxHeight)
    /\ List(World, op.maxHeight).rd = rendered

----------------------------------------------------------------------------
(* Properties of the crop of the code area. *)

\* C33: whenever the renderer trims the code area, the range [low, high)
\* it trims it to lies in the code lines and holds the line of the dot, for
\* every height, code area, line of the dot and mode line.
C33_CodeCropHoldsDotLine ==
    op.name = "Render" /\ rendered.trimmed # <<>> =>
        LET low == rendered.trimmed[1]
            high == rendered.trimmed[2]
        IN  /\ 0 <= low
            /\ low <= op.dotLine
            /\ op.dotLine < high
            /\ high <= op.nCode

----------------------------------------------------------------------------
(* Properties of the accepts of the listing mode. *)

\* C36: DefaultHandler accepts no item when filtering is disabled, where
\* it resets the mode, and none when the key is neither printable nor
\* Backspace, where it adds an "Unbound" note; this also with AutoAccept
\* and one item in the list.
C36_AcceptOnlyOnFilterChange ==
    [][/\ Listing
       /\ op'.name = "DefaultHandler"
       /\ \/ ~m.state.filtering
          \/ ~likeChar(op'.k) /\ op'.k # K(uiBackspace, 0)
       => accepted' = accepted]_vars

\* C37: every accept, by AcceptItem, AcceptItemAndClose or the automatic
\* accept, is of an index of the current item list; with an empty list no
\* accept is made.
C37_AcceptWithinItems ==
    [][Len(accepted') > Len(accepted) =>
          accepted'[Len(accepted')] \in 0..(Len(m'.state.items) - 1)]_vars

----------------------------------------------------------------------------
(* Properties of the locks. *)

\* C38: every access to the listing state by a method of the Mode is made
\* while the goroutine holds the stateMutex.
C38_ListingStateUnderMutex == threads.unsynced = {}

\* Goroutine t waits for a mutex that is not free.
Blocked(t) ==
    /\ threads.todo[t] # <<>>
    /\ Head(threads.todo[t])[1] = "lock"
    /\ threads.holder[Head(threads.todo[t])[2]] # "free"

\* The goroutine that holds the mutex t waits for.
WaitsFor(t) == threads.holder[Head(threads.todo[t])[2]]

\* C39: while the program runs, a goroutine that waits for a mutex waits
\* for another goroutine, which does not wait or waits for a third one
\* that does not wait: no goroutine waits for itself and no two wait for
\* each other.
C39_NoDeadlock ==
    ~threads.fatal =>
        \A t \in LockThreads :
            Blocked(t) =>
                LET u == WaitsFor(t)
                IN  /\ u # t
                    /\ Blocked(u) =>
                           /\ WaitsFor(u) \notin {t, u}
                           /\ ~Blocked(WaitsFor(u))

\* The redraw waits for the key handling, which was called by a configured
\* KeyHandler, holds the stateMutex and waits for the producer of notes.
C39_Witness ==
    /\ ~threads.fatal
    /\ threads.call["keys"] = "HandleEvent: DefaultHandler"
    /\ Blocked("redraw") /\ WaitsFor("redraw") = "keys"
    /\ Blocked("keys") /\ WaitsFor("keys") = "notes"
    /\ threads.call["redraw"] = "List"

----------------------------------------------------------------------------
(* Properties of the notify port. *)

\* The notes of one kind, in their order, without the kind.
RECURSIVE NotesOf(_, _)
NotesOf(kind, notes) ==
    IF notes = <<>> THEN <<>>
    ELSE IF Head(notes)[1] = kind
         THEN <<Head(notes)[2]>> \o NotesOf(kind, Tail(notes))
         ELSE NotesOf(kind, Tail(notes))

\* The bytes among what was written, and the values.
RECURSIVE BytesOf(_)
BytesOf(out) ==
    IF out = <<>> THEN <<>>
    ELSE IF Head(out)[1] = "value" THEN BytesOf(Tail(out))
         ELSE <<Head(out)[2]>> \o BytesOf(Tail(out))

RECURSIVE ValuesOf(_)
ValuesOf(out) ==
    IF out = <<>> THEN <<>>
    ELSE IF Head(out)[1] = "value"
         THEN <<Head(out)[2]>> \o ValuesOf(Tail(out))
         ELSE ValuesOf(Tail(out))

\* The stream split at its newlines: the lines without their newlines and
\* then what follows the last newline, unless that is empty.
RECURSIVE SplitLines(_, _)
SplitLines(stream, line) ==
    IF stream = <<>> THEN (IF line = <<>> THEN <<>> ELSE <<line>>)
    ELSE IF Head(stream) = 10 THEN <<line>> \o SplitLines(Tail(stream), <<>>)
         ELSE SplitLines(Tail(stream), Append(line, Head(stream)))

\* C32: when the bytes relay is done, the "[bytes out]" notes are the
\* bytes the binding wrote split at the newlines, in order: one note for
\* each line without its newline and one for a non-empty rest.
C32_BytesOutAreTheLines ==
    "bytes" \notin threads.relays =>
        NotesOf("[bytes out]", threads.notices)
            = SplitLines(BytesOf(op.out), <<>>)

\* An empty line, then a rest without newline.
C32_Witness ==
    /\ "bytes" \notin threads.relays
    /\ BytesOf(op.out) = <<10, 97>>
    /\ NotesOf("[bytes out]", threads.notices) = <<<<>>, <<97>>>>

\* C40: when callBinding has returned, the channel and the pipe are closed,
\* no relay runs, and every value and every line the binding wrote is a
\* note, whether it ended with nil, with an action or with an error.
C40_ReturnsAfterRelays ==
    threads.pc = "returned" =>
        /\ threads.closed
        /\ threads.relays = {}
        /\ threads.held = <<>> /\ threads.pipe = <<>> /\ threads.buf = <<>>
        /\ NotesOf("[value out]", threads.notices) = ValuesOf(op.out)
        /\ NotesOf("[bytes out]", threads.notices)
               = SplitLines(BytesOf(op.out), <<>>)

\* A binding that wrote a byte and a value and ended with an error: the
\* error was notified before the byte.
C40_Witness ==
    /\ threads.pc = "returned"
    /\ op.outcome = "error"
    /\ op.out = <<<<"byte", 97>>, <<"value", <<118>>>>>>
    /\ threads.notices = <<<<"[value out]", <<118>>>>,
                           <<"[binding error]", <<101>>>>,
                           <<"[bytes out]", <<97>>>>>>

====
